---------------------------- MODULE Spec2Model ----------------------------
(***************************************************************************)
(* Model of the manual-simplifier server (src/unnamed/part_002):            *)
(*   - processChunksInBatches, the batch orchestrator behind /api/gemini,  *)
(*     with the per-chunk retry loops of one batch running concurrently;   *)
(*   - mergeProcessedChunks;                                               *)
(*   - the process-wide vectorStore with /upload and /search.              *)
(* Every action is one run-to-completion step of the Node event loop: a    *)
(* handler or async function resumed from an await runs, together with the *)
(* promise continuations it triggers, up to the next await.                *)
(***************************************************************************)
EXTENDS Integers, Sequences, FiniteSets, TLC

(***************************************************************************)
(* Program constants (part_002 lines 18-21).                               *)
(***************************************************************************)
MAX_RETRIES == 3
RETRY_DELAY == 2000
RATE_LIMIT_DELAY == 5000
BATCH_SIZE == 2
CHUNK_SIZE == 2000

(***************************************************************************)
(* Bounds of the model.                                                    *)
(***************************************************************************)
\* chunks of the longest document sent through /api/gemini
MaxChunks == 3
\* /api/gemini requests the server may be handling at once (SpecServer)
NumCalls == 3
\* chunks of the longest document in SpecServer
ServerMaxChunks == 1
\* concurrent /upload and /search requests in SpecStore
NumUploads == 2
NumSearches == 1
\* chunks of the longest store searched in SpecSearch
MaxIndexChunks == 6
\* filler characters of a sentence of the uploaded documents
FillLength == 44

CallIds == 1..NumCalls
UploadIds == 1..NumUploads
SearchIds == 1..NumSearches
ChunkIds == 1..MaxChunks

VARIABLES
    \* ---- one /api/gemini request per call id ----
    calls,            \* call ids that may arrive in this specification
    maxLen,           \* longest chunk sequence a request may carry here
    fullText,         \* let fullText (line 377): the text extracted from req.file
    opc,              \* position of processChunksInBatches: none, awaitAll, cooldown, returned, threw
    chunkCount,       \* chunks.length
    batchIndex,       \* loop variable of the for loop (line 168)
    processedChunks,  \* the accumulated results (line 165)
    thrown,           \* the error processChunksInBatches rejected with
    response,         \* what the endpoint answered (res.status().json())
    \* ---- the async callback of batch.map, one per chunk ----
    tpc,              \* position: idle, delayPacing, fetch, delay429, delayBackoff, resolved, rejected
    retries,          \* let retries (line 177)
    promise,          \* what the callback's promise settled with
    delayMs,          \* argument of the delay() most recently awaited on this path
    \* ---- history variables (observations, not program state) ----
    issued,           \* extraction requests issued for the chunk
    answered,         \* of those, the ones that have been answered or have failed
    paced,            \* pacing delays completed for the chunk
    lastFailure,      \* cause of the chunk's last failed attempt
    cooldowns,        \* inter-batch delays completed by the call, in ms
    \* ---- the process-wide relevance index (lines 69-140) ----
    vectorStore,      \* [chunks, embeddings, metadata]
    \* ---- one POST /upload per upload id ----
    uploads,          \* upload ids that may arrive in this specification
    upc,              \* position: none, getDocument, getPage, getTextContent, done, failed
    upload,           \* req.file of the request: the document uploaded
    pageNum,          \* loop variable of the page loop (line 321)
    uploadResponse,   \* what /upload answered
    \* ---- one POST /search per search id ----
    searches,         \* search ids that may arrive in this specification
    spc,              \* position: none, fetch, done
    searchQuery,      \* req.body.query
    searchResults,    \* const searchResults (line 440)
    searchResponse,   \* what /search answered
    \* ---- history variable ----
    searched,         \* the chunks vectorStore.search ran over, per search
    asked             \* requests sent to the remote model, per search

callVars == <<calls, maxLen, fullText, opc, chunkCount, batchIndex, processedChunks, thrown,
              response, tpc, retries, promise, delayMs, issued, answered,
              paced, lastFailure, cooldowns>>

storeVars == <<vectorStore, uploads, upc, upload, pageNum, uploadResponse,
               searches, spc, searchQuery, searchResults, searchResponse,
               searched, asked>>

vars == <<callVars, storeVars>>

orchVars == <<opc, batchIndex, processedChunks, thrown, response, cooldowns>>

(***************************************************************************)
(* JavaScript values.                                                      *)
(***************************************************************************)
Undefined == [type |-> "undefined", key_points |-> <<>>, warnings |-> <<>>, steps |-> <<>>]
JsonNull == [type |-> "null", key_points |-> <<>>, warnings |-> <<>>, steps |-> <<>>]

\* The key points and warnings the remote model extracts, by chunk position
\* (repeating after the third): strings that differ only in case, a string
\* twice in one chunk, strings that other chunks repeat.
KeyPoints ==
    << << <<"O", "n">>, <<"o", "n">> >>,
       << <<"o", "n">>, <<"D", "r", "y">> >>,
       << <<"D", "r", "y">>, <<"O", "n">> >> >>
Warnings ==
    << << <<"H", "o", "t">>, <<"H", "o", "t">> >>,
       << <<"H", "o", "t">> >>,
       << <<"h", "o", "t">>, <<"H", "o", "t">> >> >>

\* The object the model's fenced JSON block parses to for chunk i: the key
\* points and warnings above, a step of its own and the step before it.
Extraction(i) ==
    [type |-> "object",
     key_points |-> KeyPoints[((i - 1) % Len(KeyPoints)) + 1],
     warnings |-> Warnings[((i - 1) % Len(Warnings)) + 1],
     steps |-> << <<"step", i>>, <<"step", i - 1>> >>]

\* What JSON.parse(jsonString) (line 244) may yield for chunk i.
ParsedValues(i) == {Extraction(i), JsonNull}

\* Boolean(v), the predicate of batchResults.filter(Boolean) (line 264).
Truthy(v) == v.type \notin {"undefined", "null"}

NoError == [name |-> "none"]

\* new Error(`Failed to process chunk after ${MAX_RETRIES} attempts: ${error.message}`)
\* (line 254): the message interpolates the retry budget and the cause.
RetryError(cause) == [name |-> "Error", attempts |-> MAX_RETRIES, cause |-> cause]

\* The causes that reach the catch block (line 249): fetch rejecting, a
\* non-OK status (line 225), a response without a parsable fenced JSON block
\* (lines 229-244).
ErrorCauses == {"transport", "status", "parse"}

NoResponse == [status |-> 0, error |-> "", details |-> NoError, body |-> <<>>]

(***************************************************************************)
(* Sequence helpers.                                                       *)
(***************************************************************************)
RECURSIVE FilterSeq(_, _)
FilterSeq(s, keep) ==
    IF s = <<>> THEN <<>>
    ELSE (IF keep[Head(s)] THEN <<Head(s)>> ELSE <<>>) \o FilterSeq(Tail(s), keep)

RECURSIVE Flatten(_)
Flatten(ss) == IF ss = <<>> THEN <<>> ELSE Head(ss) \o Flatten(Tail(ss))

\* the positions of a sequence, in order
Positions(str) == [k \in 1..Len(str) |-> k]

\* Dedupe keeping the last occurrence of every element instead of the first
DedupeKeepingLast(s) ==
    LET kept == SelectSeq(Positions(s), LAMBDA k : \A j \in (k + 1)..Len(s) : s[j] # s[k])
    IN [j \in 1..Len(kept) |-> s[kept[j]]]

\* [...new Set(s)]: first occurrences, in order.
Dedupe(s) ==
    LET kept == SelectSeq(Positions(s), LAMBDA k : \A j \in 1..(k - 1) : s[j] # s[k])
    IN [j \in 1..Len(kept) |-> s[kept[j]]]

RECURSIVE Pow2(_)
Pow2(n) == IF n = 0 THEN 1 ELSE 2 * Pow2(n - 1)

(***************************************************************************)
(* mergeProcessedChunks (lines 277-301).                                   *)
(***************************************************************************)
\* if (chunk.field) ...push(...chunk.field) (lines 289-291): the strings the
\* chunk contributes, none when it has no such property
Pushed(chunk, field) == IF field \in DOMAIN chunk THEN chunk[field] ELSE <<>>

\* the arrays of lines 282-292, before the duplicates are removed
Collected(results, field) == Flatten([k \in 1..Len(results) |-> Pushed(results[k], field)])

\* mergeProcessedChunks with a title taken from the content
mergeProcessedChunksTitled(results) ==
    [title |-> IF Collected(results, "key_points") = <<>>
               THEN "Technical Manual Summary"
               ELSE Collected(results, "key_points")[1],
     prerequisites |-> Dedupe(Collected(results, "key_points")),
     warnings |-> Dedupe(Collected(results, "warnings")),
     steps |-> Dedupe(Collected(results, "steps"))]

mergeProcessedChunks(results) ==
    [title |-> "Technical Manual Summary",
     prerequisites |-> Dedupe(Collected(results, "key_points")),
     warnings |-> Dedupe(Collected(results, "warnings")),
     steps |-> Dedupe(Collected(results, "steps"))]

(***************************************************************************)
(* processChunksInBatches (lines 164-274).                                 *)
(***************************************************************************)
\* Math.ceil(chunks.length / BATCH_SIZE) (line 166)
totalBatches(n) == (n + BATCH_SIZE - 1) \div BATCH_SIZE

\* batchStart, batchEnd (lines 171-172), as 0-based offsets
batchStart(b) == b * BATCH_SIZE
batchEnd(b, n) == IF batchStart(b) + BATCH_SIZE < n THEN batchStart(b) + BATCH_SIZE ELSE n

\* chunks.slice(batchStart, batchEnd) (line 173), as 1-based chunk positions
Batch(b, n) == (batchStart(b) + 1)..batchEnd(b, n)

\* the loop test of line 180, success being false whenever it is evaluated
LoopContinues(r) == r < MAX_RETRIES

\* the 429 wait (line 216) and the wait of the catch block (line 257), the
\* latter evaluated after retries++ (line 251)
RateLimitWait(r) == RETRY_DELAY * (r + 1)
BackoffWait(r) == RETRY_DELAY * Pow2(r)

\* batchResults.filter(Boolean) (line 264): the batch's settled values in
\* chunk order, falsy ones removed
BatchResults(b, n, pr) ==
    LET all == [k \in 1..(batchEnd(b, n) - batchStart(b)) |-> pr[batchStart(b) + k]]
    IN FilterSeq(all, [k \in {all[j] : j \in 1..Len(all)} |-> Truthy(k)])

\* The inner catch of /api/gemini (lines 407-412).
PdfErrorResponse(err) ==
    [status |-> 400, error |-> "Failed to process PDF", details |-> err, body |-> <<>>]

\* res.json(finalResult) (lines 403-405)
SummaryResponse(processed) ==
    [status |-> 200, error |-> "", details |-> NoError,
     body |-> mergeProcessedChunks(processed)]

PlainResponse(st, msg) ==
    [status |-> st, error |-> msg, details |-> NoError, body |-> <<>>]

\* The first callbacks of a batch run up to their first await, the pacing
\* delay of line 183.
StartBatch(c, b, n) ==
    /\ tpc' = [tpc EXCEPT ![c] = [i \in ChunkIds |->
                  IF i \in Batch(b, n) THEN "delayPacing" ELSE tpc[c][i]]]
    /\ delayMs' = [delayMs EXCEPT ![c] = [i \in ChunkIds |->
                  IF i \in Batch(b, n) THEN RATE_LIMIT_DELAY ELSE delayMs[c][i]]]

\* Continue with a Promise.all that waits for every promise to resolve and
\* lets a rejection pass unnoticed.
ContinueIgnoringRejection(c, tp, pr) ==
    LET n == chunkCount[c]
        b == batchIndex[c]
    IN IF opc[c] = "awaitAll" /\ \A i \in Batch(b, n) : tp[i] = "resolved"
       THEN LET processed == processedChunks[c] \o BatchResults(b, n, pr) IN
            /\ processedChunks' = [processedChunks EXCEPT ![c] = processed]
            /\ IF b < totalBatches(n) - 1
               THEN /\ opc' = [opc EXCEPT ![c] = "cooldown"]
                    /\ UNCHANGED response
               ELSE /\ opc' = [opc EXCEPT ![c] = "returned"]
                    /\ response' = [response EXCEPT ![c] = SummaryResponse(processed)]
            /\ UNCHANGED <<batchIndex, thrown, cooldowns>>
       ELSE UNCHANGED orchVars

\* What follows a callback's step in the same turn of the event loop:
\* Promise.all (line 263) rejects with the first rejection and the endpoint's
\* catch answers; or it resolves once every promise of the batch has, the
\* results are pushed (line 264) and the loop waits (line 269) or returns.
Continue(c, tp, pr) ==
    LET n == chunkCount[c]
        b == batchIndex[c]
        rejected == {i \in Batch(b, n) : tp[i] = "rejected"}
    IN IF opc[c] = "awaitAll" /\ rejected # {}
       THEN LET i == CHOOSE j \in rejected : TRUE IN
            /\ opc' = [opc EXCEPT ![c] = "threw"]
            /\ thrown' = [thrown EXCEPT ![c] = pr[i]]
            /\ response' = [response EXCEPT ![c] = PdfErrorResponse(pr[i])]
            /\ UNCHANGED <<batchIndex, processedChunks, cooldowns>>
       ELSE IF opc[c] = "awaitAll" /\ \A i \in Batch(b, n) : tp[i] = "resolved"
       THEN LET processed == processedChunks[c] \o BatchResults(b, n, pr) IN
            /\ processedChunks' = [processedChunks EXCEPT ![c] = processed]
            /\ IF b < totalBatches(n) - 1
               THEN /\ opc' = [opc EXCEPT ![c] = "cooldown"]
                    /\ UNCHANGED response
               ELSE /\ opc' = [opc EXCEPT ![c] = "returned"]
                    /\ response' = [response EXCEPT ![c] = SummaryResponse(processed)]
            /\ UNCHANGED <<batchIndex, thrown, cooldowns>>
       ELSE UNCHANGED orchVars

(***************************************************************************)
(* The text extracted from an uploaded PDF.                                *)
(***************************************************************************)
\* \s of a regular expression, on the characters the model uses
IsSpace(ch) == ch \in {" ", "\t", "\n"}

RECURSIVE TrimLeft(_)
TrimLeft(str) == IF str # <<>> /\ IsSpace(Head(str)) THEN TrimLeft(Tail(str)) ELSE str

RECURSIVE TrimRight(_)
TrimRight(str) ==
    IF str # <<>> /\ IsSpace(str[Len(str)])
    THEN TrimRight(SubSeq(str, 1, Len(str) - 1)) ELSE str

\* String.prototype.trim
trim(str) == TrimRight(TrimLeft(str))

\* fullText before the page loop has run
NoText == [extracted |-> FALSE, text |-> <<>>]

\* fullText after the page loop (lines 377-384): every page's text followed
\* by a line feed. A page without text items gives the line feed alone.
DocumentTexts ==
    {<<"\n">>,
     <<" ", "\n">>,
     <<"\t", " ", "\n", "\n">>,
     <<"U", "s", "e", " ", "i", "t", ".", "\n">>}

\* the test of line 388 without the trim
IsEmpty(text) == Len(text) = 0

\* !fullText || fullText.trim().length === 0 (line 388)
IsBlank(text) == Len(text) = 0 \/ Len(trim(text)) = 0

(***************************************************************************)
(* Initial state: the server is up and no request has arrived.             *)
(***************************************************************************)
InitCalls ==
    /\ fullText = [c \in CallIds |-> NoText]
    /\ opc = [c \in CallIds |-> "none"]
    /\ chunkCount = [c \in CallIds |-> 0]
    /\ batchIndex = [c \in CallIds |-> 0]
    /\ processedChunks = [c \in CallIds |-> <<>>]
    /\ thrown = [c \in CallIds |-> NoError]
    /\ response = [c \in CallIds |-> NoResponse]
    /\ tpc = [c \in CallIds |-> [i \in ChunkIds |-> "idle"]]
    /\ retries = [c \in CallIds |-> [i \in ChunkIds |-> 0]]
    /\ promise = [c \in CallIds |-> [i \in ChunkIds |-> Undefined]]
    /\ delayMs = [c \in CallIds |-> [i \in ChunkIds |-> 0]]
    /\ issued = [c \in CallIds |-> [i \in ChunkIds |-> 0]]
    /\ answered = [c \in CallIds |-> [i \in ChunkIds |-> 0]]
    /\ paced = [c \in CallIds |-> [i \in ChunkIds |-> 0]]
    /\ lastFailure = [c \in CallIds |-> [i \in ChunkIds |-> "none"]]
    /\ cooldowns = [c \in CallIds |-> <<>>]

(***************************************************************************)
(* POST /api/gemini (lines 356-421) up to the call of                      *)
(* processChunksInBatches. The PDF text extraction touches no shared state *)
(* and is folded into the step that receives the request.                  *)
(***************************************************************************)
\* GeminiRejected with the vectorStore.clear() that /upload starts with
GeminiRejectedClearing(c) ==
    /\ vectorStore' = [chunks |-> <<>>, embeddings |-> <<>>,
                       metadata |-> [currentFileName |-> <<>>, pageCount |-> 0,
                                     totalChunks |-> 0]]
    /\ UNCHANGED <<uploads, upc, upload, pageNum, uploadResponse, searches, spc,
                   searchQuery, searchResults, searchResponse, searched, asked>>
    /\ c \in calls
    /\ opc[c] = "none"
    /\ response[c] = NoResponse
    /\ \E r \in {PlainResponse(400, "No PDF file uploaded"),
                 PlainResponse(500, "API key not configured"),
                 PdfErrorResponse([name |-> "Error", attempts |-> 0, cause |-> "pdf"])} :
          response' = [response EXCEPT ![c] = r]
    /\ UNCHANGED <<calls, maxLen, fullText, opc, chunkCount, batchIndex, processedChunks,
                   thrown, tpc, retries, promise, delayMs, issued, answered,
                   paced, lastFailure, cooldowns>>

\* the early exits of lines 358-369 and the inner catch of a PDF that
\* cannot be read (lines 407-412)
GeminiRejected(c) ==
    /\ UNCHANGED storeVars
    /\ c \in calls
    /\ opc[c] = "none"
    /\ response[c] = NoResponse
    /\ \E r \in {PlainResponse(400, "No PDF file uploaded"),
                 PlainResponse(500, "API key not configured"),
                 PdfErrorResponse([name |-> "Error", attempts |-> 0, cause |-> "pdf"])} :
          response' = [response EXCEPT ![c] = r]
    /\ UNCHANGED <<calls, maxLen, fullText, opc, chunkCount, batchIndex, processedChunks,
                   thrown, tpc, retries, promise, delayMs, issued, answered,
                   paced, lastFailure, cooldowns>>

\* lines 371-400: the text is extracted; a blank text is answered 400 (lines
\* 388-393), any other is split into n chunks and the first batch starts
GeminiRequest(c) ==
    /\ UNCHANGED storeVars
    /\ c \in calls
    /\ opc[c] = "none"
    /\ response[c] = NoResponse
    /\ \E text \in DocumentTexts :
          /\ fullText' = [fullText EXCEPT ![c] = [extracted |-> TRUE, text |-> text]]
          /\ IF IsBlank(text)
             THEN /\ response' = [response EXCEPT ![c] =
                                     PlainResponse(400, "No text content found in PDF")]
                  /\ UNCHANGED <<opc, chunkCount, tpc, delayMs>>
             ELSE /\ \E n \in 1..maxLen :
                        /\ chunkCount' = [chunkCount EXCEPT ![c] = n]
                        /\ opc' = [opc EXCEPT ![c] = "awaitAll"]
                        /\ StartBatch(c, 0, n)
                  /\ UNCHANGED response
    /\ UNCHANGED <<calls, maxLen, batchIndex, processedChunks, thrown,
                   retries, promise, issued, answered, paced, lastFailure,
                   cooldowns>>

(***************************************************************************)
(* The callback of batch.map (lines 176-260), one action per await.        *)
(***************************************************************************)
\* await delay(RATE_LIMIT_DELAY) is over (line 183): fetch is called (line 185).
PacingDone(c, i) ==
    /\ UNCHANGED storeVars
    /\ tpc[c][i] = "delayPacing"
    /\ tpc' = [tpc EXCEPT ![c][i] = "fetch"]
    /\ paced' = [paced EXCEPT ![c][i] = @ + 1]
    /\ issued' = [issued EXCEPT ![c][i] = @ + 1]
    /\ UNCHANGED <<calls, maxLen, fullText, chunkCount, retries, promise, delayMs,
                   answered, lastFailure>>
    /\ UNCHANGED orchVars

\* FetchRateLimited with the 429 sent down the catch block's path: counted
\* first, then the exponential wait.
FetchRateLimitedAsError(c, i) ==
    /\ UNCHANGED storeVars
    /\ tpc[c][i] = "fetch"
    /\ tpc' = [tpc EXCEPT ![c][i] = "delay429"]
    /\ delayMs' = [delayMs EXCEPT ![c][i] = BackoffWait(retries[c][i] + 1)]
    /\ lastFailure' = [lastFailure EXCEPT ![c][i] = "http429"]
    /\ answered' = [answered EXCEPT ![c][i] = @ + 1]
    /\ UNCHANGED <<calls, maxLen, fullText, chunkCount, retries, promise, issued, paced>>
    /\ UNCHANGED orchVars

\* The response has status 429 (lines 214-216): the callback awaits the
\* linear wait.
FetchRateLimited(c, i) ==
    /\ UNCHANGED storeVars
    /\ tpc[c][i] = "fetch"
    /\ tpc' = [tpc EXCEPT ![c][i] = "delay429"]
    /\ delayMs' = [delayMs EXCEPT ![c][i] = RateLimitWait(retries[c][i])]
    /\ lastFailure' = [lastFailure EXCEPT ![c][i] = "http429"]
    /\ answered' = [answered EXCEPT ![c][i] = @ + 1]
    /\ UNCHANGED <<calls, maxLen, fullText, chunkCount, retries, promise, issued, paced>>
    /\ UNCHANGED orchVars

\* RateLimitWaitDone with the retries++ of line 217 left out: a 429 would
\* not count against the budget.
RateLimitWaitDoneUncounted(c, i) ==
    /\ UNCHANGED storeVars
    /\ tpc[c][i] = "delay429"
    /\ tpc' = [tpc EXCEPT ![c][i] = "delayPacing"]
    /\ delayMs' = [delayMs EXCEPT ![c][i] = RATE_LIMIT_DELAY]
    /\ UNCHANGED <<calls, maxLen, fullText, chunkCount, retries, promise, issued, answered,
                   paced, lastFailure>>
    /\ UNCHANGED orchVars

\* The 429 wait is over: retries++ and continue (lines 217-218); the loop
\* test of line 180 either starts the next attempt or ends the callback,
\* which then returns undefined.
RateLimitWaitDone(c, i) ==
    /\ UNCHANGED storeVars
    /\ tpc[c][i] = "delay429"
    /\ LET r == retries[c][i] + 1
           tp == [tpc[c] EXCEPT ![i] = IF LoopContinues(r) THEN "delayPacing" ELSE "resolved"]
           pr == [promise[c] EXCEPT ![i] = Undefined]
       IN /\ retries' = [retries EXCEPT ![c][i] = r]
          /\ tpc' = [tpc EXCEPT ![c] = tp]
          /\ promise' = [promise EXCEPT ![c] = pr]
          /\ delayMs' = [delayMs EXCEPT ![c][i] =
                            IF LoopContinues(r) THEN RATE_LIMIT_DELAY ELSE @]
          /\ Continue(c, tp, pr)
    /\ UNCHANGED <<calls, maxLen, fullText, chunkCount, issued, answered, paced, lastFailure>>

\* The attempt throws (fetch rejected, status not OK, no parsable JSON):
\* the catch block (lines 249-258) counts it and rethrows or backs off.
FetchFails(c, i) ==
    /\ UNCHANGED storeVars
    /\ tpc[c][i] = "fetch"
    /\ \E cause \in ErrorCauses :
          LET r == retries[c][i] + 1
              tp == [tpc[c] EXCEPT ![i] = IF r = MAX_RETRIES THEN "rejected" ELSE "delayBackoff"]
              pr == [promise[c] EXCEPT ![i] = IF r = MAX_RETRIES THEN RetryError(cause) ELSE @]
          IN /\ retries' = [retries EXCEPT ![c][i] = r]
             /\ lastFailure' = [lastFailure EXCEPT ![c][i] = cause]
             /\ tpc' = [tpc EXCEPT ![c] = tp]
             /\ promise' = [promise EXCEPT ![c] = pr]
             /\ delayMs' = [delayMs EXCEPT ![c][i] =
                               IF r = MAX_RETRIES THEN @ ELSE BackoffWait(r)]
             /\ Continue(c, tp, pr)
    /\ answered' = [answered EXCEPT ![c][i] = @ + 1]
    /\ UNCHANGED <<calls, maxLen, fullText, chunkCount, issued, paced>>

\* BackoffDone with the pacing delay placed before the loop instead of in
\* it: a retry would call fetch as soon as its backoff is over.
BackoffDoneUnpaced(c, i) ==
    /\ UNCHANGED storeVars
    /\ tpc[c][i] = "delayBackoff"
    /\ tpc' = [tpc EXCEPT ![c][i] = "fetch"]
    /\ issued' = [issued EXCEPT ![c][i] = @ + 1]
    /\ UNCHANGED <<calls, maxLen, fullText, chunkCount, retries, promise, delayMs, answered,
                   paced, lastFailure>>
    /\ UNCHANGED orchVars

\* The backoff of line 257 is over: back to the loop test and the pacing delay.
BackoffDone(c, i) ==
    /\ UNCHANGED storeVars
    /\ tpc[c][i] = "delayBackoff"
    /\ tpc' = [tpc EXCEPT ![c][i] =
                  IF LoopContinues(retries[c][i]) THEN "delayPacing" ELSE "resolved"]
    /\ delayMs' = [delayMs EXCEPT ![c][i] = RATE_LIMIT_DELAY]
    /\ UNCHANGED <<calls, maxLen, fullText, chunkCount, retries, promise, issued, answered,
                   paced, lastFailure>>
    /\ UNCHANGED orchVars

\* The response is OK and its fenced JSON block parses (lines 221-247).
FetchSucceeds(c, i) ==
    /\ UNCHANGED storeVars
    /\ tpc[c][i] = "fetch"
    /\ \E data \in ParsedValues(i) :
          LET tp == [tpc[c] EXCEPT ![i] = "resolved"]
              pr == [promise[c] EXCEPT ![i] = data]
          IN /\ tpc' = [tpc EXCEPT ![c] = tp]
             /\ promise' = [promise EXCEPT ![c] = pr]
             /\ Continue(c, tp, pr)
    /\ answered' = [answered EXCEPT ![c][i] = @ + 1]
    /\ UNCHANGED <<calls, maxLen, fullText, chunkCount, retries, delayMs, issued, paced,
                   lastFailure>>

\* CooldownDone with the inter-batch delay shortened by the waits the batch
\* already incurred, here to a single pacing delay.
CooldownDoneShortened(c) ==
    /\ UNCHANGED storeVars
    /\ opc[c] = "cooldown"
    /\ batchIndex' = [batchIndex EXCEPT ![c] = @ + 1]
    /\ cooldowns' = [cooldowns EXCEPT ![c] = Append(@,
           IF \E i \in Batch(batchIndex[c], chunkCount[c]) : retries[c][i] > 0
           THEN RATE_LIMIT_DELAY ELSE RATE_LIMIT_DELAY * 2)]
    /\ opc' = [opc EXCEPT ![c] = "awaitAll"]
    /\ StartBatch(c, batchIndex[c] + 1, chunkCount[c])
    /\ UNCHANGED <<calls, maxLen, fullText, chunkCount, processedChunks, thrown, response,
                   retries, promise, issued, answered, paced, lastFailure>>

\* The inter-batch delay is over (line 269): the for loop starts the next batch.
CooldownDone(c) ==
    /\ UNCHANGED storeVars
    /\ opc[c] = "cooldown"
    /\ batchIndex' = [batchIndex EXCEPT ![c] = @ + 1]
    /\ cooldowns' = [cooldowns EXCEPT ![c] = Append(@, RATE_LIMIT_DELAY * 2)]
    /\ opc' = [opc EXCEPT ![c] = "awaitAll"]
    /\ StartBatch(c, batchIndex[c] + 1, chunkCount[c])
    /\ UNCHANGED <<calls, maxLen, fullText, chunkCount, processedChunks, thrown, response,
                   retries, promise, issued, answered, paced, lastFailure>>

CallNext ==
    \E c \in CallIds :
        \/ GeminiRejected(c)
        \/ GeminiRequest(c)
        \/ CooldownDone(c)
        \/ \E i \in ChunkIds :
              \/ PacingDone(c, i)
              \/ FetchRateLimited(c, i)
              \/ RateLimitWaitDone(c, i)
              \/ FetchFails(c, i)
              \/ BackoffDone(c, i)
              \/ FetchSucceeds(c, i)

(***************************************************************************)
(* Strings are sequences of one-character strings.                         *)
(***************************************************************************)
UpperChars == <<"A", "B", "C", "D", "E", "F", "G", "H", "I", "J", "K", "L", "M",
                "N", "O", "P", "Q", "R", "S", "T", "U", "V", "W", "X", "Y", "Z">>
LowerChars == <<"a", "b", "c", "d", "e", "f", "g", "h", "i", "j", "k", "l", "m",
                "n", "o", "p", "q", "r", "s", "t", "u", "v", "w", "x", "y", "z">>

UpperSet == {UpperChars[k] : k \in 1..Len(UpperChars)}
LowerOf == [ch \in UpperSet |-> LowerChars[CHOOSE k \in 1..Len(UpperChars) : UpperChars[k] = ch]]

IsUpper(ch) == ch \in UpperSet
ToLower(ch) == IF IsUpper(ch) THEN LowerOf[ch] ELSE ch

\* String.prototype.toLowerCase
RECURSIVE toLowerCase(_)
toLowerCase(str) ==
    IF str = <<>> THEN <<>>
    ELSE Append(toLowerCase(SubSeq(str, 1, Len(str) - 1)), ToLower(str[Len(str)]))

\* str.replace(/\s+/g, ' ') (line 327): of every run of whitespace the last
\* character stays, as a space
CollapseSpaces(str) ==
    LET kept == SelectSeq(Positions(str),
                    LAMBDA k : ~ (IsSpace(str[k]) /\ k < Len(str) /\ IsSpace(str[k + 1])))
    IN [j \in 1..Len(kept) |-> IF IsSpace(str[kept[j]]) THEN " " ELSE str[kept[j]]]

\* first index at or after k that holds no whitespace (Len + 1 if none)
RECURSIVE RunEnd(_, _)
RunEnd(str, k) == IF k <= Len(str) /\ IsSpace(str[k]) THEN RunEnd(str, k + 1) ELSE k

\* /(?<=[.!?])\s+(?=[A-Z])/ (line 331) matches the whitespace run starting at k
IsSentenceBoundary(str, k) ==
    /\ k > 1
    /\ IsSpace(str[k])
    /\ str[k - 1] \in {".", "!", "?"}
    /\ RunEnd(str, k) <= Len(str)
    /\ IsUpper(str[RunEnd(str, k)])

\* pageText.split(/(?<=[.!?])\s+(?=[A-Z])/): the pieces between the
\* separators, a separator being the whitespace run at a sentence boundary
SplitSentences(str) ==
    LET starts == SelectSeq(Positions(str), LAMBDA k : IsSentenceBoundary(str, k))
    IN [j \in 1..(Len(starts) + 1) |->
           SubSeq(str,
                  IF j = 1 THEN 1 ELSE RunEnd(str, starts[j - 1]),
                  IF j > Len(starts) THEN Len(str) ELSE starts[j] - 1)]

RECURSIVE SplitOnFrom(_, _, _, _)
SplitOnFrom(str, sep, from, k) ==
    IF k > Len(str) THEN <<SubSeq(str, from, Len(str))>>
    ELSE IF str[k] = sep
         THEN <<SubSeq(str, from, k - 1)>> \o SplitOnFrom(str, sep, k + 1, k + 1)
         ELSE SplitOnFrom(str, sep, from, k + 1)

\* str.split(sep) for a one-character separator
split(str, sep) == SplitOnFrom(str, sep, 1, 1)

\* text.includes(term)
includes(text, term) ==
    \E k \in 1..(Len(text) - Len(term) + 1) :
        \A j \in 1..Len(term) : text[k + j - 1] = term[j]

\* new RegExp(term, 'g') (line 105) throws a SyntaxError for a term that is
\* no regular expression; of those the model holds the terms in which a "+"
\* has nothing to repeat, such as "c++".
InvalidRegExp(term) ==
    \E k \in 1..Len(term) :
        /\ term[k] = "+"
        /\ k = 1 \/ term[k - 1] = "+"

\* new RegExp(term) matches text at k. The model's terms hold letters and
\* ".", which a regular expression reads as any character but a newline
\* (a "+" only occurs in terms that do not compile).
RegExpMatchesAt(text, term, k) ==
    /\ k + Len(term) - 1 <= Len(text)
    /\ \A j \in 1..Len(term) :
          \/ term[j] = text[k + j - 1]
          \/ term[j] = "." /\ text[k + j - 1] # "\n"

\* (text.match(new RegExp(term, 'g')) || []).length (line 105): the matches
\* found scanning left to right, each search resuming after the last match
RECURSIVE CountMatchesFrom(_, _, _)
CountMatchesFrom(text, term, k) ==
    IF k + Len(term) - 1 > Len(text) THEN 0
    ELSE IF RegExpMatchesAt(text, term, k)
         THEN 1 + CountMatchesFrom(text, term, k + Len(term))
         ELSE CountMatchesFrom(text, term, k + 1)

CountMatches(text, term) == CountMatchesFrom(text, term, 1)

RECURSIVE SumSeq(_)
SumSeq(s) == IF s = <<>> THEN 0 ELSE Head(s) + SumSeq(Tail(s))

\* s.slice(0, n)
Take(s, n) == SubSeq(s, 1, IF Len(s) < n THEN Len(s) ELSE n)

(***************************************************************************)
(* vectorStore (lines 69-140).                                             *)
(***************************************************************************)
\* search topK default (line 95)
DefaultTopK == 5

EmptyMetadata == [currentFileName |-> <<>>, pageCount |-> 0, totalChunks |-> 0]

\* the store as constructed (lines 70-76) and after clear() (lines 85-94)
EmptyStore == [chunks |-> <<>>, embeddings |-> <<>>, metadata |-> EmptyMetadata]

\* clear with the metadata left as it is
clearChunksOnly(store) == [store EXCEPT !.chunks = <<>>, !.embeddings = <<>>]

clear(store) == EmptyStore

\* addChunk (lines 77-84)
addChunk(store, chunk, embedding, page) ==
    [store EXCEPT
        !.chunks = Append(@, [text |-> chunk, page |-> page, embedding |-> embedding]),
        !.embeddings = Append(@, embedding)]

\* query.toLowerCase().split(' ').filter(term => term.length > 2) (line 96)
searchTerms(query) ==
    LET terms == split(toLowerCase(query), " ")
    IN FilterSeq(terms, [t \in {terms[k] : k \in 1..Len(terms)} |-> Len(t) > 2])

\* The score of the chunk at position k (lines 100-120), as the fraction
\* num / den with den = 2 * searchTerms.length:
\*   score = termCount * (uniqueTermsFound / searchTerms.length) + 0.5 * bonus.
\* den = 0 stands for the NaN that 0 * (0 / 0) yields when no term survives.
ChunkScore(chunks, k, terms) ==
    LET text == toLowerCase(chunks[k].text)
        termCount == SumSeq([j \in 1..Len(terms) |-> CountMatches(text, terms[j])])
        uniqueTermsFound == Cardinality({j \in 1..Len(terms) : includes(text, terms[j])})
        bonus == IF k > 1
                 THEN Cardinality({j \in 1..Len(terms) :
                          includes(toLowerCase(chunks[k - 1].text), terms[j])})
                 ELSE 0
    IN [num |-> 2 * termCount * uniqueTermsFound + Len(terms) * bonus,
        den |-> 2 * Len(terms)]

\* the filter of line 131 written as !(item.score <= 0): NaN would pass
ScoreNotNegative(score) == score.den = 0 \/ score.num > 0

\* item.score > 0 (line 131); NaN > 0 is false
ScorePositive(score) == score.den > 0 /\ score.num > 0

\* b.score - a.score > 0: b sorts before a (line 132); scores of one search
\* share their denominator
ScoreGreater(b, a) == b.num > a.num

\* Array.prototype.sort with (a, b) => b.score - a.score: stable, descending
RECURSIVE InsertByScore(_, _)
InsertByScore(sorted, item) ==
    IF sorted = <<>> THEN <<item>>
    ELSE IF ScoreGreater(item.score, sorted[Len(sorted)].score)
         THEN Append(InsertByScore(SubSeq(sorted, 1, Len(sorted) - 1), item),
                     sorted[Len(sorted)])
         ELSE Append(sorted, item)

RECURSIVE SortByScore(_)
SortByScore(items) ==
    IF items = <<>> THEN <<>>
    ELSE InsertByScore(SortByScore(SubSeq(items, 1, Len(items) - 1)), items[Len(items)])

\* vectorStore.search throws: the callback of chunks.map (line 99) runs for
\* the first chunk and compiles every term (lines 104-105)
searchThrows(chunks, query) ==
    /\ chunks # <<>>
    /\ \E j \in 1..Len(searchTerms(query)) : InvalidRegExp(searchTerms(query)[j])

\* search without the slice of line 133
searchUnsliced(chunks, query, topK) ==
    LET terms == searchTerms(query)
        scoredChunks == [k \in 1..Len(chunks) |->
                            [text |-> chunks[k].text, page |-> chunks[k].page,
                             score |-> ChunkScore(chunks, k, terms)]]
        positive == FilterSeq(scoredChunks,
                        [x \in {scoredChunks[k] : k \in 1..Len(scoredChunks)} |->
                            ScorePositive(x.score)])
    IN SortByScore(positive)

\* vectorStore.search (lines 95-139)
search(chunks, query, topK) ==
    LET terms == searchTerms(query)
        scoredChunks == [k \in 1..Len(chunks) |->
                            [text |-> chunks[k].text, page |-> chunks[k].page,
                             score |-> ChunkScore(chunks, k, terms)]]
        positive == FilterSeq(scoredChunks,
                        [x \in {scoredChunks[k] : k \in 1..Len(scoredChunks)} |->
                            ScorePositive(x.score)])
    IN Take(SortByScore(positive), topK)

(***************************************************************************)
(* POST /upload (lines 303-354).                                           *)
(***************************************************************************)
\* chunk.trim().length > 50 (line 332)
MinChunkLength == 50

\* encode(chunk) and tokens.map(t => t / tokens.length) (lines 337-338) come
\* from gpt-3-encoder; nothing reads the vector, which is kept as a value
\* standing for the chunk's embedding.
Embedding(chunk) == <<"embedding", Len(chunk)>>

\* the chunks of one page (lines 324-333); items is the page's text items
PageChunks(pageText) ==
    LET sentences == SplitSentences(CollapseSpaces(pageText))
        kept == FilterSeq(sentences,
                    [x \in {sentences[k] : k \in 1..Len(sentences)} |->
                        Len(trim(x)) > MinChunkLength])
    IN [k \in 1..Len(kept) |-> trim(kept[k])]

\* pageChunks.forEach(... addChunk ...) (lines 336-340)
RECURSIVE AddChunks(_, _, _)
AddChunks(store, pageChunks, page) ==
    IF pageChunks = <<>> THEN store
    ELSE AddChunks(addChunk(store, Head(pageChunks), Embedding(Head(pageChunks)), page),
                   Tail(pageChunks), page)

\* textContent.items.map(item => item.str).join(' ') (lines 324-326)
RECURSIVE join(_, _)
join(items, sep) ==
    IF items = <<>> THEN <<>>
    ELSE IF Len(items) = 1 THEN Head(items)
    ELSE Head(items) \o sep \o join(Tail(items), sep)

\* The documents a client uploads: a file name and the text items of every
\* page. A sentence of Sentence(word) is long enough to be indexed.
Filler(n) == [k \in 1..n |-> "z"]
Sentence(word) ==
    <<"U", "s", "e", " ">> \o word \o <<" ">> \o Filler(FillLength) \o <<".">>
ShortSentence == <<"S", "e", "e", " ", "i", "t", ".">>

Pump == <<"p", "u", "m", "p">>
Valve == <<"v", "a", "l", "v", "e">>
Fuse == <<"f", "u", "s", "e">>
Relay == <<"r", "e", "l", "a", "y">>

ManualA ==
    [name |-> <<"a", ".", "p", "d", "f">>,
     pages |-> << <<Sentence(Pump), ShortSentence>>,
                  <<Sentence(Valve), Sentence(Relay)>> >>]
ManualB ==
    [name |-> <<"b", ".", "p", "d", "f">>,
     pages |-> << <<Sentence(Fuse)>> >>]

\* a sentence of exactly MinChunkLength characters
BoundarySentence == <<"S", "e", "t", " ">> \o Filler(MinChunkLength - 5) \o <<".">>

\* a document none of whose sentences is long enough to be indexed
ManualC ==
    [name |-> <<"c", ".", "p", "d", "f">>,
     pages |-> << <<ShortSentence, BoundarySentence>> >>]

Documents == {ManualA, ManualB, ManualC}

\* pdf.numPages
numPages(doc) == Len(doc.pages)

\* the queries a client sends
Queries == {Pump,
            <<"U", "s", "e", " ">> \o Fuse,
            <<"i", "t">>,
            <<"t", "o", " ", " ", "i", "t">>,
            Pump \o <<" ">> \o Valve,
            <<"u", "s", "e", " ">> \o Pump \o <<".">>,
            Pump \o <<"\t">> \o Valve,
            <<"c", "+", "+">>}

NoUpload == [name |-> <<>>, pages |-> <<>>]
NoUploadResponse == [status |-> 0]
NoSearchResponse == [status |-> 0]
NotSearched == [ran |-> FALSE, chunks |-> <<>>]

InitStore ==
    /\ vectorStore = EmptyStore
    /\ upc = [u \in UploadIds |-> "none"]
    /\ upload = [u \in UploadIds |-> NoUpload]
    /\ pageNum = [u \in UploadIds |-> 0]
    /\ uploadResponse = [u \in UploadIds |-> NoUploadResponse]
    /\ spc = [s \in SearchIds |-> "none"]
    /\ searchQuery = [s \in SearchIds |-> <<>>]
    /\ searchResults = [s \in SearchIds |-> <<>>]
    /\ searchResponse = [s \in SearchIds |-> NoSearchResponse]
    /\ searched = [s \in SearchIds |-> NotSearched]
    /\ asked = [s \in SearchIds |-> 0]

searchVars == <<searches, spc, searchQuery, searchResults, searchResponse, searched,
                asked>>

\* !req.file (lines 304-306)
UploadRejected(u) ==
    /\ u \in uploads
    /\ upc[u] = "none"
    /\ upc' = [upc EXCEPT ![u] = "failed"]
    /\ uploadResponse' = [uploadResponse EXCEPT ![u] =
                             [status |-> 400, error |-> "No PDF file uploaded"]]
    /\ UNCHANGED <<vectorStore, uploads, upload, pageNum>>
    /\ UNCHANGED searchVars
    /\ UNCHANGED callVars

\* The handler up to its first await: the store is cleared (line 310) and
\* the document is being opened (line 312).
UploadReceives(u, docs) ==
    /\ u \in uploads
    /\ upc[u] = "none"
    /\ \E doc \in docs : upload' = [upload EXCEPT ![u] = doc]
    /\ vectorStore' = clear(vectorStore)
    /\ upc' = [upc EXCEPT ![u] = "getDocument"]
    /\ UNCHANGED <<uploads, pageNum, uploadResponse>>
    /\ UNCHANGED searchVars
    /\ UNCHANGED callVars

UploadStart(u) == UploadReceives(u, Documents)

\* lines 343-349: the count is taken and the metadata object is sent
UploadFinishes(u, store) ==
    LET final == [store EXCEPT !.metadata.totalChunks = Len(store.chunks)] IN
    /\ vectorStore' = final
    /\ upc' = [upc EXCEPT ![u] = "done"]
    /\ uploadResponse' = [uploadResponse EXCEPT ![u] =
                             [status |-> 200,
                              message |-> "PDF processed and embeddings stored",
                              metadata |-> final.metadata]]

\* The document is open: file name and page count are written into the
\* store's metadata (lines 317-318) and the first page is requested.
UploadOpened(u) ==
    /\ upc[u] = "getDocument"
    /\ LET store == [vectorStore EXCEPT
                        !.metadata.currentFileName = upload[u].name,
                        !.metadata.pageCount = numPages(upload[u])]
       IN IF 1 <= numPages(upload[u])
          THEN /\ vectorStore' = store
               /\ upc' = [upc EXCEPT ![u] = "getPage"]
               /\ UNCHANGED uploadResponse
          ELSE UploadFinishes(u, store)
    /\ pageNum' = [pageNum EXCEPT ![u] = 1]
    /\ UNCHANGED <<uploads, upload>>
    /\ UNCHANGED searchVars
    /\ UNCHANGED callVars

\* await pdf.getPage(pageNum) is over (line 322)
UploadGotPage(u) ==
    /\ upc[u] = "getPage"
    /\ upc' = [upc EXCEPT ![u] = "getTextContent"]
    /\ UNCHANGED <<vectorStore, uploads, upload, pageNum, uploadResponse>>
    /\ UNCHANGED searchVars
    /\ UNCHANGED callVars

\* await page.getTextContent() is over: the page's chunks are added (lines
\* 323-340) and the loop goes on to the next page or ends.
UploadGotText(u) ==
    /\ upc[u] = "getTextContent"
    /\ LET pageText == join(upload[u].pages[pageNum[u]], <<" ">>)
           store == AddChunks(vectorStore, PageChunks(pageText), pageNum[u])
       IN IF pageNum[u] + 1 <= numPages(upload[u])
          THEN /\ vectorStore' = store
               /\ upc' = [upc EXCEPT ![u] = "getPage"]
               /\ UNCHANGED uploadResponse
          ELSE UploadFinishes(u, store)
    /\ pageNum' = [pageNum EXCEPT ![u] = @ + 1]
    /\ UNCHANGED <<uploads, upload>>
    /\ UNCHANGED searchVars
    /\ UNCHANGED callVars

\* getDocument, getPage or getTextContent rejects: the catch block answers
\* (lines 350-353) and the store stays as it is.
UploadThrows(u) ==
    /\ upc[u] \in {"getDocument", "getPage", "getTextContent"}
    /\ upc' = [upc EXCEPT ![u] = "failed"]
    /\ uploadResponse' = [uploadResponse EXCEPT ![u] =
                             [status |-> 500, error |-> "Failed to process PDF"]]
    /\ UNCHANGED <<vectorStore, uploads, upload, pageNum>>
    /\ UNCHANGED searchVars
    /\ UNCHANGED callVars

(***************************************************************************)
(* POST /search (lines 424-513).                                           *)
(***************************************************************************)
CouldNotFind == "I couldn't find any relevant information about that in the manual."

\* the answer of lines 443-447
NoHitResponse ==
    [status |-> 200, answer |-> CouldNotFind, relevantSections |-> <<>>, confidence |-> 0]

\* !query (lines 427-429): the query is missing or the empty string
SearchRejected(s) ==
    /\ s \in searches
    /\ spc[s] = "none"
    /\ spc' = [spc EXCEPT ![s] = "done"]
    /\ searchResponse' = [searchResponse EXCEPT ![s] =
                             [status |-> 400, error |-> "No search query provided"]]
    /\ UNCHANGED <<searches, searchQuery, searchResults, searched, asked>>
    /\ UNCHANGED <<vectorStore, uploads, upc, upload, pageNum, uploadResponse>>
    /\ UNCHANGED callVars

\* vectorStore.search (line 440) throws and the catch block answers (lines
\* 506-512)
SearchCaught(s) ==
    /\ spc' = [spc EXCEPT ![s] = "done"]
    /\ searchResponse' = [searchResponse EXCEPT ![s] =
           [status |-> 500, error |-> "Failed to search the manual",
            details |-> "pattern"]]
    /\ searched' = [searched EXCEPT ![s] =
           [ran |-> TRUE, chunks |-> vectorStore.chunks]]
    /\ UNCHANGED searchResults

\* Search without the test of line 432: an empty store is searched like any
\* other.
SearchUnguarded(s) ==
    /\ s \in searches
    /\ spc[s] = "none"
    /\ \E query \in Queries :
          /\ searchQuery' = [searchQuery EXCEPT ![s] = query]
          /\ IF searchThrows(vectorStore.chunks, query)
             THEN SearchCaught(s)
             ELSE LET results == search(vectorStore.chunks, query, DefaultTopK) IN
                  /\ searchResults' = [searchResults EXCEPT ![s] = results]
                  /\ searched' = [searched EXCEPT ![s] =
                         [ran |-> TRUE, chunks |-> vectorStore.chunks]]
                  /\ IF Len(results) = 0
                     THEN /\ spc' = [spc EXCEPT ![s] = "done"]
                          /\ searchResponse' = [searchResponse EXCEPT ![s] =
                                 [status |-> 200, answer |-> CouldNotFind,
                                  relevantSections |-> <<>>, confidence |-> 0]]
                     ELSE /\ spc' = [spc EXCEPT ![s] = "fetch"]
                          /\ UNCHANGED searchResponse
    /\ asked' = [asked EXCEPT ![s] = IF spc'[s] = "fetch" THEN @ + 1 ELSE @]
    /\ UNCHANGED searches
    /\ UNCHANGED <<vectorStore, uploads, upc, upload, pageNum, uploadResponse>>
    /\ UNCHANGED callVars

\* Search without the test of line 442: the prompt is sent to the model
\* even when it holds no section.
SearchAlwaysAsks(s) ==
    /\ s \in searches
    /\ spc[s] = "none"
    /\ \E query \in Queries :
          /\ searchQuery' = [searchQuery EXCEPT ![s] = query]
          /\ IF Len(vectorStore.chunks) = 0
             THEN /\ spc' = [spc EXCEPT ![s] = "done"]
                  /\ searchResponse' = [searchResponse EXCEPT ![s] =
                         [status |-> 400, error |-> "No manual content available"]]
                  /\ UNCHANGED <<searchResults, searched>>
             ELSE IF searchThrows(vectorStore.chunks, query)
             THEN SearchCaught(s)
             ELSE LET results == search(vectorStore.chunks, query, DefaultTopK) IN
                  /\ searchResults' = [searchResults EXCEPT ![s] = results]
                  /\ searched' = [searched EXCEPT ![s] =
                         [ran |-> TRUE, chunks |-> vectorStore.chunks]]
                  /\ spc' = [spc EXCEPT ![s] = "fetch"]
                  /\ UNCHANGED searchResponse
    /\ asked' = [asked EXCEPT ![s] = IF spc'[s] = "fetch" THEN @ + 1 ELSE @]
    /\ UNCHANGED searches
    /\ UNCHANGED <<vectorStore, uploads, upc, upload, pageNum, uploadResponse>>
    /\ UNCHANGED callVars

\* The handler up to the fetch (lines 431-478): without chunks it answers
\* 400; otherwise it searches and either answers that nothing was found or
\* sends the grounding prompt to the model.
Search(s) ==
    /\ s \in searches
    /\ spc[s] = "none"
    /\ \E query \in Queries :
          /\ searchQuery' = [searchQuery EXCEPT ![s] = query]
          /\ IF Len(vectorStore.chunks) = 0
             THEN /\ spc' = [spc EXCEPT ![s] = "done"]
                  /\ searchResponse' = [searchResponse EXCEPT ![s] =
                         [status |-> 400, error |-> "No manual content available"]]
                  /\ UNCHANGED <<searchResults, searched>>
             ELSE IF searchThrows(vectorStore.chunks, query)
             THEN SearchCaught(s)
             ELSE LET results == search(vectorStore.chunks, query, DefaultTopK) IN
                  /\ searchResults' = [searchResults EXCEPT ![s] = results]
                  /\ searched' = [searched EXCEPT ![s] =
                         [ran |-> TRUE, chunks |-> vectorStore.chunks]]
                  /\ IF Len(results) = 0
                     THEN /\ spc' = [spc EXCEPT ![s] = "done"]
                          /\ searchResponse' = [searchResponse EXCEPT ![s] =
                                 [status |-> 200, answer |-> CouldNotFind,
                                  relevantSections |-> <<>>, confidence |-> 0]]
                     ELSE /\ spc' = [spc EXCEPT ![s] = "fetch"]
                          /\ UNCHANGED searchResponse
    /\ asked' = [asked EXCEPT ![s] = IF spc'[s] = "fetch" THEN @ + 1 ELSE @]
    /\ UNCHANGED searches
    /\ UNCHANGED <<vectorStore, uploads, upc, upload, pageNum, uploadResponse>>
    /\ UNCHANGED callVars

\* res.json of lines 493-504 for the hits given
AnswerResponse(hits, metadata) ==
    [status |-> 200,
     answer |-> "answer",
     relevantSections |->
         [k \in 1..Len(hits) |->
             [text |-> hits[k].text, page |-> hits[k].page, confidence |-> hits[k].score]],
     metadata |->
         [totalPages |-> metadata.pageCount,
          pagesSearched |-> Dedupe([k \in 1..Len(hits) |-> hits[k].page]),
          fileName |-> metadata.currentFileName]]

\* SearchAnswered with the hits searched again in the store as it is when
\* the model answers.
SearchAnsweredFromStore(s) ==
    /\ spc[s] = "fetch"
    /\ spc' = [spc EXCEPT ![s] = "done"]
    /\ searchResponse' = [searchResponse EXCEPT ![s] =
           AnswerResponse(search(vectorStore.chunks, searchQuery[s], DefaultTopK),
                          vectorStore.metadata)]
    /\ UNCHANGED <<searches, searchQuery, searchResults, searched, asked>>
    /\ UNCHANGED <<vectorStore, uploads, upc, upload, pageNum, uploadResponse>>
    /\ UNCHANGED callVars

\* The model answers with text (lines 480-504): the response is built from
\* the hits found before the fetch and from the store's metadata as it is now.
SearchAnswered(s) ==
    /\ spc[s] = "fetch"
    /\ spc' = [spc EXCEPT ![s] = "done"]
    /\ searchResponse' = [searchResponse EXCEPT ![s] =
           AnswerResponse(searchResults[s], vectorStore.metadata)]
    /\ UNCHANGED <<searches, searchQuery, searchResults, searched, asked>>
    /\ UNCHANGED <<vectorStore, uploads, upc, upload, pageNum, uploadResponse>>
    /\ UNCHANGED callVars

\* SearchFails with the retry loop of processChunksInBatches around the
\* fetch: a response that is not OK is asked for again, up to MAX_RETRIES
\* requests.
SearchFailsRetrying(s) ==
    /\ spc[s] = "fetch"
    /\ \E cause \in {"transport", "status", "empty"} :
          IF cause = "status" /\ asked[s] < MAX_RETRIES
          THEN /\ asked' = [asked EXCEPT ![s] = @ + 1]
               /\ UNCHANGED <<spc, searchResponse>>
          ELSE /\ spc' = [spc EXCEPT ![s] = "done"]
               /\ searchResponse' = [searchResponse EXCEPT ![s] =
                      [status |-> 500, error |-> "Failed to search the manual",
                       details |-> cause]]
               /\ UNCHANGED asked
    /\ UNCHANGED <<searches, searchQuery, searchResults, searched>>
    /\ UNCHANGED <<vectorStore, uploads, upc, upload, pageNum, uploadResponse>>
    /\ UNCHANGED callVars

\* SearchFails with a catch block that resets the store.
SearchFailsResetting(s) ==
    /\ spc[s] = "fetch"
    /\ spc' = [spc EXCEPT ![s] = "done"]
    /\ \E cause \in {"transport", "status", "empty"} :
          searchResponse' = [searchResponse EXCEPT ![s] =
              [status |-> 500, error |-> "Failed to search the manual",
               details |-> cause]]
    /\ vectorStore' = clear(vectorStore)
    /\ UNCHANGED <<searches, searchQuery, searchResults, searched, asked>>
    /\ UNCHANGED <<uploads, upc, upload, pageNum, uploadResponse>>
    /\ UNCHANGED callVars

\* fetch rejects, the status is not OK, or the response holds no text: the
\* catch block answers (lines 480-488, 506-512)
SearchFails(s) ==
    /\ spc[s] = "fetch"
    /\ spc' = [spc EXCEPT ![s] = "done"]
    /\ \E cause \in {"transport", "status", "empty"} :
          searchResponse' = [searchResponse EXCEPT ![s] =
              [status |-> 500, error |-> "Failed to search the manual",
               details |-> cause]]
    /\ UNCHANGED <<searches, searchQuery, searchResults, searched, asked>>
    /\ UNCHANGED <<vectorStore, uploads, upc, upload, pageNum, uploadResponse>>
    /\ UNCHANGED callVars

StoreNext ==
    \/ \E u \in UploadIds :
          \/ UploadRejected(u)
          \/ UploadStart(u)
          \/ UploadOpened(u)
          \/ UploadGotPage(u)
          \/ UploadGotText(u)
          \/ UploadThrows(u)
    \/ \E s \in SearchIds :
          \/ SearchRejected(s)
          \/ Search(s)
          \/ SearchAnswered(s)
          \/ SearchFails(s)

(***************************************************************************)
(* The page loop of /upload (lines 321-341) run from page p to the end.    *)
(***************************************************************************)
RECURSIVE IndexFrom(_, _, _)
IndexFrom(store, doc, p) ==
    IF p > numPages(doc) THEN store
    ELSE IndexFrom(AddChunks(store, PageChunks(join(doc.pages[p], <<" ">>)), p),
                   doc, p + 1)

(***************************************************************************)
(* SpecBatch: one /api/gemini request, documents of up to MaxChunks chunks.*)
(***************************************************************************)
InitBatch ==
    /\ calls = {1}
    /\ maxLen = MaxChunks
    /\ InitCalls
    /\ uploads = {}
    /\ searches = {}
    /\ InitStore

SpecBatch == InitBatch /\ [][CallNext]_vars

(***************************************************************************)
(* SpecBatchLive: SpecBatch with the fairness the program itself provides. *)
(* A timer set by delay() (line 161) fires, so every step that resumes     *)
(* from a delay is weakly fair. The steps that resume from fetch (lines    *)
(* 185-212) are taken when the remote service answers or the connection    *)
(* fails; fetch is node-fetch called without a timeout or an abort signal, *)
(* so nothing on the program's side makes one of them happen.              *)
(***************************************************************************)
TimerFires ==
    \E c \in CallIds :
        \/ CooldownDone(c)
        \/ \E i \in ChunkIds :
              \/ PacingDone(c, i)
              \/ RateLimitWaitDone(c, i)
              \/ BackoffDone(c, i)

SpecBatchLive == InitBatch /\ [][CallNext]_vars /\ WF_vars(TimerFires)

(***************************************************************************)
(* SpecBatchAnswered: processChunksInBatches called with any chunk         *)
(* sequence of up to maxLen chunks, the empty one included, under the      *)
(* assumption that the remote service answers every request or the         *)
(* request fails: the steps that resume from fetch are weakly fair too.    *)
(***************************************************************************)
\* processChunksInBatches(chunks, apiKey) is called (line 399) and runs to its
\* first await: with no chunk the for loop of line 168 is not entered and the
\* function returns processedChunks, still empty (line 273).
ProcessChunksCalled(c) ==
    /\ UNCHANGED storeVars
    /\ c \in calls
    /\ opc[c] = "none"
    /\ response[c] = NoResponse
    /\ \E text \in {t \in DocumentTexts : ~ IsBlank(t)} :
          fullText' = [fullText EXCEPT ![c] = [extracted |-> TRUE, text |-> text]]
    /\ \E n \in 0..maxLen :
          /\ chunkCount' = [chunkCount EXCEPT ![c] = n]
          /\ IF n = 0
             THEN /\ opc' = [opc EXCEPT ![c] = "returned"]
                  /\ response' = [response EXCEPT ![c] = SummaryResponse(<<>>)]
                  /\ UNCHANGED <<tpc, delayMs>>
             ELSE /\ opc' = [opc EXCEPT ![c] = "awaitAll"]
                  /\ StartBatch(c, 0, n)
                  /\ UNCHANGED response
    /\ UNCHANGED <<calls, maxLen, batchIndex, processedChunks, thrown,
                   retries, promise, issued, answered, paced, lastFailure,
                   cooldowns>>

ResponseArrives ==
    \E c \in CallIds : \E i \in ChunkIds :
        \/ FetchRateLimited(c, i)
        \/ FetchFails(c, i)
        \/ FetchSucceeds(c, i)

AnsweredNext ==
    \E c \in CallIds :
        \/ ProcessChunksCalled(c)
        \/ CooldownDone(c)
        \/ \E i \in ChunkIds :
              \/ PacingDone(c, i)
              \/ FetchRateLimited(c, i)
              \/ RateLimitWaitDone(c, i)
              \/ FetchFails(c, i)
              \/ BackoffDone(c, i)
              \/ FetchSucceeds(c, i)

SpecBatchAnswered ==
    InitBatch /\ [][AnsweredNext]_vars /\ WF_vars(TimerFires) /\ WF_vars(ResponseArrives)

(***************************************************************************)
(* SpecServer: NumCalls /api/gemini requests handled concurrently, each    *)
(* with a document of up to ServerMaxChunks chunks.                        *)
(***************************************************************************)
InitServer ==
    /\ calls = CallIds
    /\ maxLen = ServerMaxChunks
    /\ InitCalls
    /\ uploads = {}
    /\ searches = {}
    /\ InitStore

\* ServerMaxChunks <= BATCH_SIZE: every document is one batch, so the for
\* loop never reaches the inter-batch delay and CooldownDone has no part.
ServerNext ==
    \E c \in CallIds :
        \/ GeminiRejected(c)
        \/ GeminiRequest(c)
        \/ \E i \in ChunkIds :
              \/ PacingDone(c, i)
              \/ FetchRateLimited(c, i)
              \/ RateLimitWaitDone(c, i)
              \/ FetchFails(c, i)
              \/ BackoffDone(c, i)
              \/ FetchSucceeds(c, i)

SpecServer == InitServer /\ [][ServerNext]_vars

(***************************************************************************)
(* SpecStore: NumUploads /upload and NumSearches /search requests handled  *)
(* concurrently; no /api/gemini request.                                   *)
(***************************************************************************)
InitStoreSpec ==
    /\ calls = {}
    /\ maxLen = 0
    /\ InitCalls
    /\ uploads = UploadIds
    /\ searches = SearchIds
    /\ InitStore

SpecStore == InitStoreSpec /\ [][StoreNext]_vars

\* ---- one /api/gemini request and /upload requests side by side ----
InitIngest ==
    /\ calls = {1}
    /\ maxLen = ServerMaxChunks
    /\ InitCalls
    /\ uploads = UploadIds
    /\ searches = {}
    /\ InitStore

IngestNext ==
    \/ ServerNext
    \/ \E u \in UploadIds :
          \/ UploadRejected(u)
          \/ UploadStart(u)
          \/ UploadOpened(u)
          \/ UploadGotPage(u)
          \/ UploadGotText(u)
          \/ UploadThrows(u)

SpecIngest == InitIngest /\ [][IngestNext]_vars

\* ---- uploads of documents with long pages ----

\* a sentence longer than CHUNK_SIZE: no whitespace in it is followed by a
\* capital letter, so the split of line 331 finds no boundary inside
LongSentence == <<"U", "s", "e", " ">> \o Filler(CHUNK_SIZE) \o <<".">>

ManualLong ==
    [name |-> <<"l", ".", "p", "d", "f">>,
     pages |-> << <<LongSentence>>, <<Sentence(Valve), ShortSentence>> >>]

LongDocuments == {ManualLong, ManualB}

UploadStartLong(u) == UploadReceives(u, LongDocuments)

InitPagesSpec ==
    /\ calls = {}
    /\ maxLen = 0
    /\ InitCalls
    /\ uploads = UploadIds
    /\ searches = {}
    /\ InitStore

PagesNext ==
    \E u \in UploadIds :
        \/ UploadRejected(u)
        \/ UploadStartLong(u)
        \/ UploadOpened(u)
        \/ UploadGotPage(u)
        \/ UploadGotText(u)
        \/ UploadThrows(u)

SpecPages == InitPagesSpec /\ [][PagesNext]_vars

(***************************************************************************)
(* SpecSearch: /search requests against a store that a completed upload    *)
(* has filled. The uploaded document has up to MaxIndexChunks pages of one *)
(* indexable sentence each, so that every order of matching, repeating and *)
(* unrelated chunks reaches vectorStore.search.                            *)
(***************************************************************************)
SearchTexts == {Sentence(Pump), Sentence(Pump \o <<" ">> \o Pump), Sentence(Valve)}

SearchDocuments ==
    {[name |-> <<"m", ".", "p", "d", "f">>, pages |-> [k \in DOMAIN texts |-> <<texts[k]>>]] :
        texts \in UNION {[1..n -> SearchTexts] : n \in 1..MaxIndexChunks}}

\* the store after /upload of doc has run from clear() to its response
UploadedStore(doc) ==
    LET opened == [EmptyStore EXCEPT !.metadata.currentFileName = doc.name,
                                     !.metadata.pageCount = numPages(doc)]
        indexed == IndexFrom(opened, doc, 1)
    IN [indexed EXCEPT !.metadata.totalChunks = Len(indexed.chunks)]

InitSearchSpec ==
    /\ calls = {}
    /\ maxLen = 0
    /\ InitCalls
    /\ uploads = {}
    /\ searches = SearchIds
    /\ vectorStore \in {UploadedStore(doc) : doc \in SearchDocuments}
    /\ upc = [u \in UploadIds |-> "none"]
    /\ upload = [u \in UploadIds |-> NoUpload]
    /\ pageNum = [u \in UploadIds |-> 0]
    /\ uploadResponse = [u \in UploadIds |-> NoUploadResponse]
    /\ spc = [s \in SearchIds |-> "none"]
    /\ searchQuery = [s \in SearchIds |-> <<>>]
    /\ searchResults = [s \in SearchIds |-> <<>>]
    /\ searchResponse = [s \in SearchIds |-> NoSearchResponse]
    /\ searched = [s \in SearchIds |-> NotSearched]
    /\ asked = [s \in SearchIds |-> 0]

SearchNext ==
    \E s \in SearchIds :
        \/ SearchRejected(s)
        \/ Search(s)
        \/ SearchAnswered(s)
        \/ SearchFails(s)

SpecSearch == InitSearchSpec /\ [][SearchNext]_vars

(***************************************************************************)
(* Observations the claims are stated with.                                *)
(***************************************************************************)
\* extraction requests of chunk i of call c that are in flight
InFlight(c, i) == issued[c][i] - answered[c][i]

RECURSIVE SumOver(_, _)
SumOver(f, S) ==
    IF S = {} THEN 0
    ELSE LET x == CHOOSE y \in S : TRUE IN f[x] + SumOver(f, S \ {x})

InFlightOfCall(c) == SumOver([i \in ChunkIds |-> InFlight(c, i)], ChunkIds)
InFlightOfServer == SumOver([c \in CallIds |-> InFlightOfCall(c)], CallIds)

\* the callback of chunk i returned data (line 247)
Succeeded(c, i) == tpc[c][i] = "resolved" /\ promise[c][i].type # "undefined"

\* all MAX_RETRIES attempts of chunk i were made and none succeeded
Exhausted(c, i) == retries[c][i] = MAX_RETRIES

\* the batch (0-based) chunk i belongs to
BatchOf(i) == (i - 1) \div BATCH_SIZE

Chunks(c) == 1..chunkCount[c]

(***************************************************************************)
(* C1. Whenever processChunksInBatches returns, the returned sequence has  *)
(* one entry per input chunk and entry i is the value chunk i's extraction *)
(* parsed to, whatever that value is and in whatever order the concurrent  *)
(* calls completed.                                                        *)
(* Violated: filter(Boolean) (line 264) drops a null extraction and the    *)
(* undefined of a chunk whose third attempt was answered 429.              *)
(***************************************************************************)
C1_ResultMatchesInput ==
    \A c \in CallIds :
        opc[c] = "returned" =>
            /\ Len(processedChunks[c]) = chunkCount[c]
            /\ \A i \in Chunks(c) : processedChunks[c][i] = promise[c][i]

(***************************************************************************)
(* C2. If a chunk has used up its retry budget, whatever the failures were,*)
(* processChunksInBatches fails: it neither goes on to the next batch nor  *)
(* returns, and /api/gemini does not answer with a summary.                *)
(* Violated: a chunk whose MAX_RETRIES-th attempt is answered 429 leaves   *)
(* the loop without throwing (lines 214-218, 180).                         *)
(***************************************************************************)
C2_ExhaustionFailsTheCall ==
    \A c \in CallIds : \A i \in Chunks(c) :
        Exhausted(c, i) =>
            /\ opc[c] \notin {"cooldown", "returned"}
            /\ response[c].status # 200

(***************************************************************************)
(* C3. The error processChunksInBatches fails with carries the position of *)
(* the chunk whose budget was exhausted and the cause of that chunk's last *)
(* failed attempt.                                                         *)
(* Violated: the Error of line 254 carries the cause, not the position.    *)
(***************************************************************************)
C3_FailureIdentifiesChunk ==
    \A c \in CallIds :
        opc[c] = "threw" =>
            \E i \in Batch(batchIndex[c], chunkCount[c]) :
                /\ tpc[c][i] = "rejected"
                /\ promise[c][i] = thrown[c]
                /\ thrown[c].cause = lastFailure[c][i]
                /\ "position" \in DOMAIN thrown[c]
                /\ thrown[c].position = i

\* the part of C3 the code does satisfy: the cause is carried
C3_FailureCarriesCause ==
    \A c \in CallIds :
        opc[c] = "threw" =>
            \E i \in Batch(batchIndex[c], chunkCount[c]) :
                /\ tpc[c][i] = "rejected"
                /\ promise[c][i] = thrown[c]
                /\ thrown[c].cause = lastFailure[c][i]

(***************************************************************************)
(* C4. A chunk whose extraction fails exactly MAX_RETRIES - 1 times, with  *)
(* any failure kinds, and then succeeds does not make the call fail, and   *)
(* the sequence the call returns contains that chunk's extraction.         *)
(* Violated: an extraction that parsed to null is dropped (see C1).        *)
(***************************************************************************)
C4_LastAttemptSuccessIsReturned ==
    \A c \in CallIds : \A i \in Chunks(c) :
        (Succeeded(c, i) /\ retries[c][i] = MAX_RETRIES - 1) =>
            /\ thrown[c] = NoError \/ thrown[c] # promise[c][i]
            /\ opc[c] = "returned" =>
                   \E k \in 1..Len(processedChunks[c]) :
                       processedChunks[c][k] = promise[c][i]

CompleteIndex == [doc \in Documents |-> IndexFrom(EmptyStore, doc, 1).chunks]

TextsOf(doc) == {CompleteIndex[doc][k].text : k \in 1..Len(CompleteIndex[doc])}

(***************************************************************************)
(* C5. A /search never runs vectorStore.search over part of a document:    *)
(* the chunks it searches are the complete chunk set of some uploaded      *)
(* document (a query that finds the store empty is answered 400 instead).  *)
(* Violated: /upload adds the chunks page by page, with an await between   *)
(* the pages (lines 321-341), and a query runs in between.                 *)
(***************************************************************************)
C5_SearchSeesCompleteDocument ==
    \A s \in SearchIds :
        searched[s].ran =>
            \E doc \in Documents : searched[s].chunks = CompleteIndex[doc]

(***************************************************************************)
(* C6. In every state the chunks of the store belong to one document, the  *)
(* file name and page count of the metadata are that document's (or still  *)
(* reset), and the hits of every search come from one document.            *)
(* Violated: two /upload requests interleave at their awaits; each clears  *)
(* once, at its start, and both then write metadata and add chunks.        *)
(***************************************************************************)
C6_SingleDocument ==
    /\ \E doc \in Documents :
          /\ \A k \in 1..Len(vectorStore.chunks) :
                 vectorStore.chunks[k].text \in TextsOf(doc)
          /\ vectorStore.metadata.currentFileName \in {<<>>, doc.name}
          /\ vectorStore.metadata.pageCount \in {0, numPages(doc)}
    /\ \A s \in SearchIds :
          \E doc \in Documents :
              \A k \in 1..Len(searchResults[s]) :
                  searchResults[s][k].text \in TextsOf(doc)

(***************************************************************************)
(* C7. Within one call at most BATCH_SIZE requests are in flight, and no   *)
(* request for a chunk of batch k+1 is issued before every chunk of the    *)
(* batches up to k has succeeded and k+1 inter-batch cooldowns are over.   *)
(* Violated: a chunk of batch k exhausted by a 429 resolves without        *)
(* success and the next batch starts all the same (see C2).                *)
(***************************************************************************)
C7_BatchesAreSequential ==
    \A c \in CallIds :
        /\ InFlightOfCall(c) <= BATCH_SIZE
        /\ \A i \in Chunks(c) :
               issued[c][i] > 0 =>
                   /\ \A j \in 1..batchStart(BatchOf(i)) : Succeeded(c, j)
                   /\ Len(cooldowns[c]) >= BatchOf(i)

(***************************************************************************)
(* C8. Across all requests the server is handling, at most BATCH_SIZE      *)
(* extraction requests are in flight.                                      *)
(* Violated: nothing serialises /api/gemini requests (lines 356-405).      *)
(***************************************************************************)
C8_ServerWideBound == InFlightOfServer <= BATCH_SIZE

(***************************************************************************)
(* C9. For every chunk at most MAX_RETRIES requests are issued, every      *)
(* request after the first is paid for by a counted failure (429 or error, *)
(* one counter), and at most one request of the chunk is in flight.        *)
(***************************************************************************)
C9_RequestBudget ==
    \A c \in CallIds : \A i \in ChunkIds :
        /\ issued[c][i] <= MAX_RETRIES
        /\ issued[c][i] <= retries[c][i] + 1
        /\ InFlight(c, i) \in {0, 1}

\* a chunk that was answered 429 on its last attempt after all three requests
C9_Witness ==
    \E c \in CallIds : \E i \in Chunks(c) :
        /\ issued[c][i] = MAX_RETRIES
        /\ Exhausted(c, i)
        /\ lastFailure[c][i] = "http429"

(***************************************************************************)
(* C10. Every extraction request, first attempt or retry, is issued right  *)
(* after a pacing delay of RATE_LIMIT_DELAY on that chunk's call path: the *)
(* chunk has completed as many pacing delays as it has issued requests,    *)
(* and the delay awaited last before a request in flight is the pacing one.*)
(***************************************************************************)
C10_PacedRequests ==
    \A c \in CallIds : \A i \in ChunkIds :
        /\ paced[c][i] = issued[c][i]
        /\ InFlight(c, i) > 0 => delayMs[c][i] = RATE_LIMIT_DELAY

\* a third request in flight, after a 429 wait or a backoff
C10_Witness ==
    \E c \in CallIds : \E i \in Chunks(c) :
        /\ InFlight(c, i) = 1
        /\ issued[c][i] = MAX_RETRIES
        /\ retries[c][i] = MAX_RETRIES - 1

C12_BackoffFromFirstFailure ==
    \A c \in CallIds : \A i \in ChunkIds :
        tpc[c][i] = "delayBackoff" =>
            /\ answered[c][i] = retries[c][i]
            /\ delayMs[c][i] = RETRY_DELAY * Pow2(answered[c][i] - 1)

C14_CallTerminates ==
    \A c \in CallIds :
        (opc[c] = "awaitAll") ~> (opc[c] \in {"returned", "threw"})

(***************************************************************************)
(* C15. The step that receives a /search query while the store holds no    *)
(* chunk (nothing uploaded yet, just cleared, or an upload that indexed    *)
(* nothing) answers 400 'No manual content available' and ends the         *)
(* request: vectorStore.search is not run and nothing is sent to the model.*)
(***************************************************************************)
C15_EmptyStoreAnswersNoDocument ==
    [][\A s \in SearchIds :
          (spc[s] = "none" /\ searchQuery'[s] # <<>> /\ Len(vectorStore.chunks) = 0)
          => /\ spc'[s] = "done"
             /\ searchResponse'[s] =
                    [status |-> 400, error |-> "No manual content available"]
             /\ ~ searched'[s].ran]_vars

\* a query answered with the no-document error after a completed upload
\* that indexed no chunk
C15_Witness ==
    \E s \in SearchIds : \E u \in UploadIds :
        /\ searchResponse[s].status = 400
        /\ searchResponse[s].error = "No manual content available"
        /\ upc[u] = "done"
        /\ upload[u] = ManualC
        /\ vectorStore.metadata.currentFileName = ManualC.name

(***************************************************************************)
(* C16. The step that receives a /search query for which vectorStore.search*)
(* finds no hit in a non-empty store answers 200 with the fixed            *)
(* could-not-find answer, no relevant section and confidence 0, and ends   *)
(* the request without sending anything to the model.                      *)
(***************************************************************************)
C16_NoHitAnswersWithoutModel ==
    [][\A s \in SearchIds :
          (/\ spc[s] = "none" /\ searchQuery'[s] # <<>>
           /\ Len(vectorStore.chunks) > 0
           /\ ~ searchThrows(vectorStore.chunks, searchQuery'[s])
           /\ Len(search(vectorStore.chunks, searchQuery'[s], DefaultTopK)) = 0)
          => /\ spc'[s] = "done"
             /\ searchResponse'[s] =
                    [status |-> 200, answer |-> CouldNotFind,
                     relevantSections |-> <<>>, confidence |-> 0]]_vars

\* a query with a surviving token that no chunk of the store contains
C16_Witness ==
    \E s \in SearchIds :
        /\ spc[s] = "done"
        /\ searched[s].ran
        /\ Len(searched[s].chunks) > 0
        /\ searchTerms(searchQuery[s]) # <<>>
        /\ searchResults[s] = <<>>
        /\ searchResponse[s].status = 200

(***************************************************************************)
(* C17. No step of a /search request, whatever its outcome (answer, no     *)
(* hit, no document, remote error, empty remote response), changes the     *)
(* store's chunks, embeddings or metadata.                                 *)
(***************************************************************************)
C17_SearchLeavesStore ==
    [][(spc' # spc) => vectorStore' = vectorStore]_vars

\* a query that failed at the model, over a store that holds chunks
C17_Witness ==
    \E s \in SearchIds :
        /\ searchResponse[s].status = 500
        /\ searchResults[s] # <<>>
        /\ vectorStore.chunks # <<>>

(***************************************************************************)
(* The surviving tokens of a search's query.                               *)
(***************************************************************************)
Terms(s) == searchTerms(searchQuery[s])

(***************************************************************************)
(* C18. Every hit of a search is a chunk whose lower-cased text contains   *)
(* at least one surviving token of the query; in a two-chunk store of      *)
(* which one chunk contains the token, in either order, only that chunk is *)
(* returned.                                                               *)
(* Violated: the 0.5 of line 118 is added after the product of line 111,   *)
(* so a chunk without any token that follows a chunk with one scores 0.5   *)
(* and passes the filter of line 131.                                      *)
(***************************************************************************)
C18_HitsContainAToken ==
    \A s \in SearchIds :
        searched[s].ran =>
            \A h \in 1..Len(searchResults[s]) :
                \E j \in 1..Len(Terms(s)) :
                    includes(toLowerCase(searchResults[s][h].text), Terms(s)[j])

(***************************************************************************)
(* C19. In SpecSearch the page of a chunk is its position in the store.    *)
(* Looked at when vectorStore.search has just run (the request waits for   *)
(* the model or has answered that nothing was found), for the result the   *)
(* handler got (topK = 5) and for a search with topK = 2: the              *)
(* result has at most topK hits, each a chunk of the store with its score, *)
(* which is > 0; scores never increase along the result; of two hits with  *)
(* equal scores the chunk added first comes first; and a chunk with a      *)
(* positive score that is not a hit is not scored higher than any hit, the *)
(* result then being full.                                                 *)
(***************************************************************************)
RECURSIVE ScoresUpTo(_, _, _)
ScoresUpTo(chunks, terms, n) ==
    IF n = 0 THEN <<>>
    ELSE Append(ScoresUpTo(chunks, terms, n - 1), ChunkScore(chunks, n, terms))

SearchResultOrdered(chunks, query, topK, result) ==
    LET terms == searchTerms(query)
        score == ScoresUpTo(chunks, terms, Len(chunks))
    IN /\ Len(result) <= topK
       /\ \A h \in 1..Len(result) :
              /\ result[h].page \in 1..Len(chunks)
              /\ result[h].text = chunks[result[h].page].text
              /\ result[h].score = score[result[h].page]
              /\ result[h].score.den > 0 /\ result[h].score.num > 0
       /\ \A a, b \in 1..Len(result) :
              a < b =>
                  /\ result[a].score.num >= result[b].score.num
                  /\ result[a].score.num = result[b].score.num
                         => result[a].page < result[b].page
       /\ \A k \in 1..Len(chunks) :
              (score[k].den > 0 /\ score[k].num > 0) =>
                  \/ \E h \in 1..Len(result) : result[h].page = k
                  \/ /\ Len(result) = topK
                     /\ \A h \in 1..Len(result) : result[h].score.num >= score[k].num

C19_ResultIsRankedPrefix ==
    \A s \in SearchIds :
        (searched[s].ran /\ searchResponse[s] \in {NoSearchResponse, NoHitResponse}) =>
            /\ SearchResultOrdered(searched[s].chunks, searchQuery[s], DefaultTopK,
                                   searchResults[s])
            /\ SearchResultOrdered(searched[s].chunks, searchQuery[s], 2,
                   search(searched[s].chunks, searchQuery[s], 2))

\* six chunks with a positive score: the result is cut to five, holds two
\* hits of equal score and a hit ranked before a chunk added earlier
C19_Witness ==
    \E s \in SearchIds :
        /\ searched[s].ran
        /\ Len(searched[s].chunks) > DefaultTopK
        /\ \A k \in 1..Len(searched[s].chunks) :
               ScorePositive(ChunkScore(searched[s].chunks, k, Terms(s)))
        /\ Len(searchResults[s]) = DefaultTopK
        /\ \E a, b \in 1..Len(searchResults[s]) :
               /\ a < b
               /\ searchResults[s][a].score = searchResults[s][b].score
        /\ \E a, b \in 1..Len(searchResults[s]) :
               /\ a < b
               /\ searchResults[s][a].page > searchResults[s][b].page

(***************************************************************************)
(* C20. With at least one surviving token, the score of every chunk is     *)
(*   (sum over the tokens of the token's occurrences in the lower-cased    *)
(*    text) * (tokens present in the text / tokens)                        *)
(*   + 0.5 * (tokens present in the chunk stored just before, if any),     *)
(* and every hit carries that score of its chunk; a single chunk holding a *)
(* single token N times scores N.                                          *)
(* Violated: line 105 counts the matches of the token read as a regular    *)
(* expression, which for a token such as 'pump.' are not its occurrences.  *)
(***************************************************************************)
RECURSIVE OccurrencesFrom(_, _, _)
OccurrencesFrom(text, term, k) ==
    IF k + Len(term) - 1 > Len(text) THEN 0
    ELSE IF \A j \in 1..Len(term) : text[k + j - 1] = term[j]
         THEN 1 + OccurrencesFrom(text, term, k + Len(term))
         ELSE OccurrencesFrom(text, term, k + 1)

\* occurrences of term in text, counted without overlap from the left
Occurrences(text, term) == OccurrencesFrom(text, term, 1)

\* the claimed score of the chunk at position k, as num / den with
\* den = 2 * tokens
ClaimedScore(chunks, k, terms) ==
    LET text == toLowerCase(chunks[k].text)
        occurrences == SumSeq([j \in 1..Len(terms) |-> Occurrences(text, terms[j])])
        present == Cardinality({j \in 1..Len(terms) : includes(text, terms[j])})
        before == IF k > 1
                  THEN Cardinality({j \in 1..Len(terms) :
                           includes(toLowerCase(chunks[k - 1].text), terms[j])})
                  ELSE 0
    IN [num |-> 2 * occurrences * present + Len(terms) * before,
        den |-> 2 * Len(terms)]

C20_ScoreFormula ==
    \A s \in SearchIds :
        (/\ searched[s].ran /\ Terms(s) # <<>>
         /\ ~ searchThrows(searched[s].chunks, searchQuery[s])) =>
            /\ \A k \in 1..Len(searched[s].chunks) :
                   ChunkScore(searched[s].chunks, k, Terms(s))
                       = ClaimedScore(searched[s].chunks, k, Terms(s))
            /\ \A h \in 1..Len(searchResults[s]) :
                   searchResults[s][h].score
                       = ClaimedScore(searched[s].chunks, searchResults[s][h].page, Terms(s))

(***************************************************************************)
(* C21. A search whose surviving tokens occur in no chunk (none is a       *)
(* substring of a lower-cased chunk text) returns the empty sequence: the  *)
(* request is answered with the could-not-find answer.                     *)
(* Violated: an absent token that is no regular expression, such as        *)
(* 'c++', makes new RegExp (line 105) throw; the search returns nothing    *)
(* and the request is answered 500 (see C20 for the unescaped token).      *)
(***************************************************************************)
TokensAbsent(s) ==
    \A j \in 1..Len(Terms(s)) : \A k \in 1..Len(searched[s].chunks) :
        ~ includes(toLowerCase(searched[s].chunks[k].text), Terms(s)[j])

C21_AbsentTokensFindNothing ==
    \A s \in SearchIds :
        (searched[s].ran /\ TokensAbsent(s)) =>
            /\ searchResults[s] = <<>>
            /\ searchResponse[s] = NoHitResponse

(***************************************************************************)
(* C22. The step in which vectorStore.clear() runs leaves a store without  *)
(* chunks and embeddings and with the metadata reset (empty file name,     *)
(* page count 0, total 0), whatever the store held before; and after any   *)
(* step that leaves the store without chunks, vectorStore.search returns   *)
(* the empty sequence for every query.                                     *)
(***************************************************************************)
C22_ClearEmptiesTheStore ==
    [][/\ \A u \in UploadIds :
             (upc[u] = "none" /\ upc'[u] = "getDocument") =>
                 /\ vectorStore'.chunks = <<>>
                 /\ vectorStore'.embeddings = <<>>
                 /\ vectorStore'.metadata =
                        [currentFileName |-> <<>>, pageCount |-> 0, totalChunks |-> 0]
       /\ vectorStore'.chunks = <<>> =>
             \A query \in Queries :
                 /\ ~ searchThrows(vectorStore'.chunks, query)
                 /\ search(vectorStore'.chunks, query, DefaultTopK) = <<>>]_vars

\* the store just cleared by an upload, after an earlier upload had filled it
C22_Witness ==
    \E u, v \in UploadIds :
        /\ upc[u] = "getDocument"
        /\ vectorStore = EmptyStore
        /\ upc[v] = "done"
        /\ uploadResponse[v].status = 200
        /\ uploadResponse[v].metadata.totalChunks > 0

(***************************************************************************)
(* C23. The surviving tokens of a search are the lower-cased query split   *)
(* at every run of whitespace (space, tab, newline), less the tokens of    *)
(* length <= 2.                                                            *)
(* Violated: line 96 splits at the single character ' ' only; a tab or a   *)
(* newline stays inside the token.                                         *)
(***************************************************************************)
RECURSIVE TokenEnd(_, _)
TokenEnd(str, k) == IF k <= Len(str) /\ ~ IsSpace(str[k]) THEN TokenEnd(str, k + 1) ELSE k

\* the maximal runs of characters that are no whitespace, from position k on
RECURSIVE WhitespaceTokensFrom(_, _)
WhitespaceTokensFrom(str, k) ==
    IF k > Len(str) THEN <<>>
    ELSE IF IsSpace(str[k]) THEN WhitespaceTokensFrom(str, k + 1)
    ELSE <<SubSeq(str, k, TokenEnd(str, k) - 1)>>
             \o WhitespaceTokensFrom(str, TokenEnd(str, k))

ClaimedTerms(query) ==
    LET tokens == WhitespaceTokensFrom(toLowerCase(query), 1)
    IN FilterSeq(tokens, [t \in {tokens[k] : k \in 1..Len(tokens)} |-> Len(t) >= 3])

C23_TokensSplitOnWhitespace ==
    \A s \in SearchIds :
        searched[s].ran => Terms(s) = ClaimedTerms(searchQuery[s])

(***************************************************************************)
(* The summary a /api/gemini request answered with, and the extractions it *)
(* was merged from.                                                        *)
(***************************************************************************)
Summarised(c) == opc[c] = "returned" /\ response[c].status = 200

NoDuplicate(seq) == \A a, b \in 1..Len(seq) : seq[a] = seq[b] => a = b

FirstIndex(seq, x) == CHOOSE k \in 1..Len(seq) : seq[k] = x /\ \A j \in 1..(k - 1) : seq[j] # x

\* out holds every string of in once, in the order of the first occurrences
FirstOccurrencesOf(out, in) ==
    /\ NoDuplicate(out)
    /\ {out[k] : k \in 1..Len(out)} = {in[k] : k \in 1..Len(in)}
    /\ \A a, b \in 1..Len(out) : a < b => FirstIndex(in, out[a]) < FirstIndex(in, out[b])

(***************************************************************************)
(* C24. The summary's prerequisites, warnings and steps are the key_points,*)
(* warnings and steps of the merged extractions, concatenated in input     *)
(* order and reduced to first occurrences: no string twice, every input    *)
(* string present (strings that differ only in case being different        *)
(* strings), first occurrences in their input order.                       *)
(***************************************************************************)
C24_MergeKeepsFirstOccurrences ==
    \A c \in CallIds :
        Summarised(c) =>
            /\ FirstOccurrencesOf(response[c].body.prerequisites,
                   Flatten([k \in 1..Len(processedChunks[c]) |-> processedChunks[c][k].key_points]))
            /\ FirstOccurrencesOf(response[c].body.warnings,
                   Flatten([k \in 1..Len(processedChunks[c]) |-> processedChunks[c][k].warnings]))
            /\ FirstOccurrencesOf(response[c].body.steps,
                   Flatten([k \in 1..Len(processedChunks[c]) |-> processedChunks[c][k].steps]))

\* a summary of three extractions that repeat strings within and across
\* chunks, two of whose prerequisites differ only in case
C24_Witness ==
    \E c \in CallIds :
        /\ Summarised(c)
        /\ Len(processedChunks[c]) = 3
        /\ Len(response[c].body.warnings) < 5
        /\ \E a, b \in 1..Len(response[c].body.prerequisites) :
               /\ a # b
               /\ toLowerCase(response[c].body.prerequisites[a])
                      = toLowerCase(response[c].body.prerequisites[b])

(***************************************************************************)
(* C25. Merging the empty sequence is no error: the request is answered    *)
(* with a summary whose prerequisites, warnings and steps are empty; and   *)
(* the title of every summary is "Technical Manual Summary".               *)
(***************************************************************************)
C25_EmptyMergeAndTitle ==
    \A c \in CallIds :
        /\ Summarised(c) => response[c].body.title = "Technical Manual Summary"
        /\ (opc[c] = "returned" /\ processedChunks[c] = <<>>) =>
               /\ response[c].status = 200
               /\ thrown[c] = NoError
               /\ response[c].body.prerequisites = <<>>
               /\ response[c].body.warnings = <<>>
               /\ response[c].body.steps = <<>>

\* a summary merged from nothing, and one merged from extractions
C25_Witness ==
    \E c \in CallIds :
        /\ Summarised(c)
        /\ processedChunks[c] = <<>>
        /\ chunkCount[c] > 0

(***************************************************************************)
(* C26. Merging a summary again, as the single element of the input,       *)
(* yields the same prerequisites, warnings and steps.                      *)
(* Violated: the summary carries its key points as 'prerequisites', while  *)
(* the merge reads 'key_points' (lines 282, 289): merged again, the        *)
(* prerequisites are empty.                                                *)
(***************************************************************************)
C26_MergeIsIdempotent ==
    \A c \in CallIds :
        Summarised(c) =>
            LET again == mergeProcessedChunks(<<response[c].body>>)
            IN /\ again.prerequisites = response[c].body.prerequisites
               /\ again.warnings = response[c].body.warnings
               /\ again.steps = response[c].body.steps

\* the part of C26 the code does satisfy: warnings and steps are unchanged
C26_WarningsAndStepsIdempotent ==
    \A c \in CallIds :
        Summarised(c) =>
            LET again == mergeProcessedChunks(<<response[c].body>>)
            IN /\ again.warnings = response[c].body.warnings
               /\ again.steps = response[c].body.steps


\* C27: every chunk the chunking step emits is at most CHUNK_SIZE characters
\* long, on the indexing path of /upload too, even for page text without a
\* sentence boundary.  Lines 329-333 split only at sentence boundaries and
\* drop short pieces; nothing caps a piece, so a long sentence is stored whole.
C27_ChunksWithinMaxSize ==
    \A k \in DOMAIN vectorStore.chunks :
        Len(vectorStore.chunks[k].text) <= CHUNK_SIZE


(***************************************************************************)
(* The sentence chunks of a document, page by page, before any is dropped  *)
(* (lines 324-331), and those of trimmed length MinChunkLength or more.    *)
(***************************************************************************)
PageSentences(doc, p) == SplitSentences(CollapseSpaces(join(doc.pages[p], <<" ">>)))

SentencesOfAtLeastMinLength(doc) ==
    {trim(PageSentences(doc, p)[k]) :
        <<p, k>> \in {pk \in (1..numPages(doc)) \X (1..MaxIndexChunks) :
                         /\ pk[2] <= Len(PageSentences(doc, pk[1]))
                         /\ Len(trim(PageSentences(doc, pk[1])[pk[2]])) >= MinChunkLength}}

\* C28: when /upload builds the index it drops exactly the sentence chunks
\* of trimmed length below 50 and indexes every chunk of trimmed length 50
\* or more: after an upload that ran alone, the texts of the store are the
\* document's sentences of trimmed length 50 or more.
\* Violated: the test of line 332 is chunk.trim().length > 50, so a sentence
\* of exactly 50 characters is dropped.
C28_IndexesFromMinLength ==
    \A u \in UploadIds :
        (upc[u] = "done" /\ \A v \in UploadIds \ {u} : upload[v] = NoUpload)
        => {vectorStore.chunks[k].text : k \in DOMAIN vectorStore.chunks}
               = SentencesOfAtLeastMinLength(upload[u])


\* C29: only a successful upload replaces the document: the step in which
\* an /upload fails (getDocument, getPage or getTextContent throws) leaves
\* the store holding exactly the chunks and metadata of the document loaded
\* before.
\* Violated: vectorStore.clear() (line 310) runs as soon as the file is
\* received, before getDocument, and the catch block (lines 350-353)
\* restores nothing.
C29_FailedUploadKeepsDocument ==
    [][\A v \in UploadIds :
          (/\ upc[v] \in {"getDocument", "getPage", "getTextContent"}
           /\ upc'[v] = "failed"
           /\ \E u \in UploadIds : upc[u] = "done")
          => \E u \in UploadIds :
                 /\ upc[u] = "done"
                 /\ vectorStore'.chunks = CompleteIndex[upload[u]]
                 /\ vectorStore'.metadata.currentFileName = upload[u].name
                 /\ vectorStore'.metadata.pageCount = numPages(upload[u])]_vars


\* C30: when the text extracted from the uploaded document is empty or
\* holds only whitespace, /api/gemini answers 400 with the empty-document
\* error, issues no extraction request and returns no summary.
C30_BlankTextAnswersEmptyDocument ==
    \A c \in CallIds :
        (fullText[c].extracted
         /\ \A k \in DOMAIN fullText[c].text : IsSpace(fullText[c].text[k]))
        => /\ response[c] = PlainResponse(400, "No text content found in PDF")
           /\ opc[c] = "none"
           /\ \A i \in ChunkIds : issued[c][i] = 0 /\ tpc[c][i] = "idle"
           /\ processedChunks[c] = <<>>

\* a document of two pages without text, answered with the empty-document
\* error
C30_Witness ==
    \E c \in CallIds :
        /\ fullText[c] = [extracted |-> TRUE, text |-> <<"\t", " ", "\n", "\n">>]
        /\ response[c].status = 400
        /\ response[c].error = "No text content found in PDF"


(***************************************************************************)
(* C31. A /search answered by the model returns as relevantSections        *)
(* exactly the hits vectorStore.search(query) gave for the store the       *)
(* search ran over, topK = 5, in rank order, each with the hit's text,     *)
(* page and score; metadata.pagesSearched holds the distinct pages of      *)
(* those hits, each once.                                                  *)
(***************************************************************************)
Answered(s) ==
    /\ spc[s] = "done"
    /\ searchResponse[s].status = 200
    /\ searchResponse[s] # NoHitResponse

C31_SectionsAreTheHits ==
    \A s \in SearchIds :
        Answered(s) =>
            LET hits == search(searched[s].chunks, searchQuery[s], DefaultTopK)
                sections == searchResponse[s].relevantSections
                pages == searchResponse[s].metadata.pagesSearched
            IN /\ Len(hits) > 0
               /\ Len(sections) = Len(hits)
               /\ \A k \in 1..Len(hits) :
                      /\ sections[k].text = hits[k].text
                      /\ sections[k].page = hits[k].page
                      /\ sections[k].confidence = hits[k].score
               /\ {pages[k] : k \in 1..Len(pages)} = {hits[k].page : k \in 1..Len(hits)}
               /\ \A a, b \in 1..Len(pages) : pages[a] = pages[b] => a = b

\* an answered query with three hits, two of them on the same page
C31_Witness ==
    \E s \in SearchIds :
        /\ Answered(s)
        /\ Len(searchResponse[s].relevantSections) = 3
        /\ Len(searchResponse[s].metadata.pagesSearched) = 2


(***************************************************************************)
(* C32. Provided every extraction request is answered or fails, a call of  *)
(* processChunksInBatches terminates for every chunk sequence and every    *)
(* pattern of failures: it returns or fails, with at most MAX_RETRIES      *)
(* requests per chunk, a failure being that of a chunk that used up its    *)
(* MAX_RETRIES attempts; called with no chunk it returns the empty         *)
(* sequence without a request or a wait.                                   *)
(***************************************************************************)
BoundedAttempts(c) ==
    /\ \A i \in ChunkIds : issued[c][i] <= MAX_RETRIES
    /\ opc[c] = "threw" =>
           \E i \in Chunks(c) : tpc[c][i] = "rejected" /\ answered[c][i] = MAX_RETRIES

EmptyCallReturnsAtOnce(c) ==
    (opc[c] # "none" /\ chunkCount[c] = 0) =>
        /\ opc[c] = "returned"
        /\ processedChunks[c] = <<>>
        /\ cooldowns[c] = <<>>
        /\ \A i \in ChunkIds :
               issued[c][i] = 0 /\ paced[c][i] = 0 /\ tpc[c][i] = "idle"

C32_AnsweredCallTerminates ==
    /\ [](\A c \in CallIds : BoundedAttempts(c) /\ EmptyCallReturnsAtOnce(c))
    /\ (\E c \in CallIds : opc[c] \in {"awaitAll", "cooldown"})
           ~> (\A c \in CallIds : opc[c] \in {"none", "returned", "threw"})

\* a call of two batches that returned although a chunk of each batch had
\* failed attempts, one by a 429 and one by an error
C32_Witness ==
    \E c \in CallIds :
        /\ opc[c] = "returned"
        /\ chunkCount[c] = MaxChunks
        /\ \E i \in Batch(0, chunkCount[c]) : \E j \in Batch(1, chunkCount[c]) :
               /\ retries[c][i] > 0 /\ lastFailure[c][i] = "http429"
               /\ retries[c][j] > 0 /\ lastFailure[c][j] \in ErrorCauses


(***************************************************************************)
(* C33. Once a call of processChunksInBatches has failed because a chunk   *)
(* of a batch used up its retries, no further extraction request is issued *)
(* for that call.                                                          *)
(* Violated: Promise.all (line 263) rejects with the first rejection, but  *)
(* nothing stops the callback of the batch's other chunk: its loop (lines  *)
(* 180-259) goes on waiting and calling fetch.                             *)
(***************************************************************************)
C33_NoRequestAfterFailure ==
    [][\A c \in CallIds : \A i \in ChunkIds :
          opc[c] = "threw" => issued'[c][i] = issued[c][i]]_vars


(***************************************************************************)
(* C34. When an /upload answers successfully, the metadata it returns and  *)
(* the store agree: totalChunks is the number of chunks of the store,      *)
(* every chunk's page lies in 1..pageCount, the chunks are in              *)
(* non-decreasing page order and fileName is the name of the file of this  *)
(* request, also when another /upload ran concurrently.                    *)
(* Violated: two uploads interleave at their awaits and write the same     *)
(* store and metadata (see C6); the one that answers returns the other's   *)
(* file name and page count.                                               *)
(***************************************************************************)
MetadataAgrees(metadata, store, file) ==
    /\ metadata.totalChunks = Len(store.chunks)
    /\ \A k \in 1..Len(store.chunks) : store.chunks[k].page \in 1..metadata.pageCount
    /\ \A a, b \in 1..Len(store.chunks) :
           a < b => store.chunks[a].page <= store.chunks[b].page
    /\ metadata.currentFileName = file.name

C34_ReturnedMetadataAgrees ==
    [][\A u \in UploadIds :
          (upc[u] # "done" /\ upc'[u] = "done")
          => MetadataAgrees(uploadResponse'[u].metadata, vectorStore', upload[u])]_vars


(***************************************************************************)
(* C35. A /search with at least one hit sends exactly one request to the   *)
(* remote model and never a second: a response that is not OK (a 429       *)
(* included), a failed request or a response without text ends the query   *)
(* with status 500 and {error, details}; a query without a query string is *)
(* answered 400 before the store is looked at.                             *)
(***************************************************************************)
C35_OneRequestNoRetry ==
    \A s \in SearchIds :
        /\ asked[s] <= 1
        /\ asked[s] = 1 <=> (searched[s].ran /\ Len(searchResults[s]) > 0)
        /\ (spc[s] = "done" /\ asked[s] = 1 /\ searchResponse[s].status # 200)
               => /\ searchResponse[s].status = 500
                  /\ searchResponse[s].error = "Failed to search the manual"
                  /\ searchResponse[s].details \in {"transport", "status", "empty"}
        /\ (spc[s] = "done" /\ searchQuery[s] = <<>>)
               => /\ searchResponse[s] = [status |-> 400, error |-> "No search query provided"]
                  /\ ~ searched[s].ran
                  /\ asked[s] = 0

\* a query with hits whose one request was answered with a status that is
\* not OK
C35_Witness ==
    \E s \in SearchIds :
        /\ spc[s] = "done"
        /\ asked[s] = 1
        /\ Len(searchResults[s]) > 0
        /\ searchResponse[s].status = 500
        /\ searchResponse[s].details = "status"


(***************************************************************************)
(* C36. When no token of the query survives the length filter,             *)
(* vectorStore.search returns the empty sequence whatever the store holds, *)
(* and /search gives the fixed could-not-find answer without a request to  *)
(* the remote model.                                                       *)
(***************************************************************************)
C36_NoTokenNoHit ==
    \A s \in SearchIds :
        (searched[s].ran /\ Terms(s) = <<>>)
        => /\ search(searched[s].chunks, searchQuery[s], DefaultTopK) = <<>>
           /\ searchResults[s] = <<>>
           /\ spc[s] = "done"
           /\ searchResponse[s] = NoHitResponse
           /\ asked[s] = 0

\* the query 'to  it', whose tokens 'to', '' and 'it' are all dropped, over
\* a store of MaxIndexChunks chunks
C36_Witness ==
    \E s \in SearchIds :
        /\ searched[s].ran
        /\ Len(searched[s].chunks) = MaxIndexChunks
        /\ searchQuery[s] = <<"t", "o", " ", " ", "i", "t">>
        /\ searchResponse[s] = NoHitResponse


(***************************************************************************)
(* C37. No step of the summarization path (/api/gemini: the chunking,      *)
(* processChunksInBatches, mergeProcessedChunks), successful or failed,    *)
(* changes the relevance index or its metadata, and no step of the         *)
(* indexing path (/upload) issues a request to the remote extraction       *)
(* service.                                                                *)
(***************************************************************************)
C37_PathsAreSeparate ==
    [][/\ callVars' # callVars => vectorStore' = vectorStore
       /\ <<upc, upload, pageNum, uploadResponse>>' # <<upc, upload, pageNum, uploadResponse>>
              => issued' = issued /\ tpc' = tpc]_vars

\* a summary returned while the store holds the chunks of a completed
\* upload
C37_Witness ==
    \E c \in CallIds : \E u \in UploadIds :
        /\ opc[c] = "returned"
        /\ response[c].status = 200
        /\ upc[u] = "done"
        /\ Len(vectorStore.chunks) > 0
        /\ vectorStore.metadata.currentFileName = upload[u].name


(***************************************************************************)
(* C38. After the final, MAX_RETRIES-th failed attempt of a chunk no wait  *)
(* is performed: a chunk is in a retry wait only while it has attempts     *)
(* left, after an error and after a 429 alike.                             *)
(* Violated: on a 429 the wait of line 216 comes before retries++ (line    *)
(* 217) and before the loop test, so the third 429 is still followed by a  *)
(* wait of 6000 ms; only the catch block (lines 253-255) ends at once.     *)
(***************************************************************************)
C38_NoWaitAfterFinalAttempt ==
    \A c \in CallIds : \A i \in ChunkIds :
        tpc[c][i] \in {"delay429", "delayBackoff"} => answered[c][i] < MAX_RETRIES

=============================================================================
